---- MODULE Spec2Model ----
(***************************************************************************)
(* Model of the ransomware dashboard page (website/app/page.tsx) and of    *)
(* the map component it drives (website/components/map-chart.tsx): the     *)
(* aggregation of the entity list fetched on mount, and the country        *)
(* selection state machine.                                                *)
(*                                                                         *)
(* JavaScript objects used as dictionaries are modelled as sequences of    *)
(* records in insertion order, which is the order Object.keys and          *)
(* Object.entries enumerate string keys in (no key of the model is an      *)
(* integer-like string).  Array.prototype.sort is a stable sort.           *)
(*                                                                         *)
(* TLC evaluates the arguments of an operator by name.  Only({e(x) : x \in  *)
(* {v}}) evaluates v once and then e on its value: it is `e(v)`, written   *)
(* so that the loops below are evaluated in linear time.                   *)
(***************************************************************************)
EXTENDS Integers, Sequences, FiniteSets, TLC

\* ------------------------------------------------------------------------
\* Bounds of the model
\* ------------------------------------------------------------------------
MaxEntities == 3      \* longest entity list of the page specifications
MaxAnimKey == 4       \* cap of the chartAnimationKey counter
MaxLong == 12         \* longest entity list of the top-N specification
MaxFetched == 2       \* longest entity list of the fetch specification
MaxCities == 22       \* most distinct base cities of the city specification
MaxFrames == 2        \* animation frames one scroll animation takes
MaxShown == 11        \* longest list of distinct names of the display specification
MaxDays == 2          \* latest day of the timestamps of the card specification
MaxReloads == 2       \* most reloads of the document

\* ------------------------------------------------------------------------
\* JavaScript values
\* ------------------------------------------------------------------------
\* A field that is absent (undefined): falsy in `x || d` and `!x`.
Missing == "<undefined>"
\* JavaScript null, the value of selectedCountry when nothing is selected.
Null == "<null>"

\* x || d
OrElse(x, d) == IF x = Missing THEN d ELSE x

\* String.prototype.toUpperCase over the country codes of the model.
ToUpperCase(s) ==
    CASE s = "usa" -> "USA"
      [] s = "fra" -> "FRA"
      [] OTHER -> s

\* t("unknown") and t("global") of the language the page mounts with.
TUnknown == "Unknown"
TGlobal == "Global"

\* Employee range order
employeeRangeOrder ==
    <<"1-9", "10-49", "50-99", "100-499", "500-999", "1000-4999", "5000+">>

\* Revenue range order
revenueRangeOrder ==
    <<"<$1M", "$1M-$5M", "$5M-$10M", "$10M-$50M", "$50M-$100M",
      "$100M-$500M", "$500M-$1B", ">$1B">>

\* ------------------------------------------------------------------------
\* Entities: one element of the `entities` array of the payload.  `kind`
\* tells a JSON object from null and from a primitive (0 is falsy, 5 is
\* truthy); a primitive or null has no field.
\* ------------------------------------------------------------------------
Entity(kind, cc, country, city, ind, grp, emp, rev, st) ==
    [kind |-> kind, country_code |-> cc, country |-> country, city |-> city,
     industry |-> ind, ransomware_group |-> grp,
     employees_range |-> emp, revenue_range |-> rev, status |-> st]

Obj(cc, country, city, ind, grp, emp, rev, st) ==
    Entity("object", cc, country, city, ind, grp, emp, rev, st)

Primitive(kind) ==
    Entity(kind, Missing, Missing, Missing, Missing, Missing, Missing,
           Missing, Missing)

NullEntity == Primitive("null")
FalsyEntity == Primitive("falsy")
TruthyEntity == Primitive("truthy")

\* !item
IsFalsy(item) == item.kind \in {"null", "falsy"}

\* ------------------------------------------------------------------------
\* Dictionaries in insertion order
\* ------------------------------------------------------------------------
\* The element of a singleton set
Only(S) == CHOOSE x \in S : TRUE

\* The sum of the numbers of a sequence
SumSeq(s0) ==
    Only({ LET sum[k \in 0..Len(s)] == IF k = 0 THEN 0 ELSE sum[k - 1] + s[k]
           IN  sum[Len(s)] : s \in {s0} })

\* The sum of the `value` fields, and of the `count` fields, of a list
SumOfValues(s) == SumSeq([i \in 1..Len(s) |-> s[i].value])
SumOfCounts(s) == SumSeq([i \in 1..Len(s) |-> s[i].count])

\* Array.prototype.indexOf, 0-based, -1 when absent
IndexOf(s, x) ==
    IF \E i \in 1..Len(s) : s[i] = x
    THEN (CHOOSE i \in 1..Len(s) : s[i] = x /\ \A j \in 1..(i-1) : s[j] # x) - 1
    ELSE -1

\* obj.hasOwnProperty(name) for a dictionary of {name, value} entries
HasName(d, name) == \E i \in 1..Len(d) : d[i].name = name

\* obj[name] (only used where the key exists)
ValueAt(d, name) == d[CHOOSE i \in 1..Len(d) : d[i].name = name].value

\* obj[name] = v, appending the key when it is new
SetName(d, name, v) ==
    IF HasName(d, name)
    THEN [i \in 1..Len(d) |->
            IF d[i].name = name THEN [d[i] EXCEPT !.value = v] ELSE d[i]]
    ELSE Append(d, [name |-> name, value |-> v])

\* obj[name] = 1: a counter that forgets what it has counted
Increment_Forgets(d, name) == SetName(d, name, 1)

\* obj[name] = (obj[name] || 0) + 1
Increment(d, name) ==
    SetName(d, name, (IF HasName(d, name) THEN ValueAt(d, name) ELSE 0) + 1)

\* slice(0, n - 1): a limit that is off by one
Slice_OffByOne(s0, n) ==
    Only({ SubSeq(s, 1, IF Len(s) < n - 1 THEN Len(s) ELSE n - 1) : s \in {s0} })

\* Array.prototype.slice(0, n)
Slice(s0, n) == Only({ SubSeq(s, 1, IF Len(s) < n THEN Len(s) ELSE n) : s \in {s0} })

\* (a, b) => b.value - a.value
ByValueDesc(a, b) == b.value - a.value
\* (a, b) => a.count - b.count: the ascending order
ByCountDesc_Ascending(a, b) == a.count - b.count

\* (a, b) => b.count - a.count
ByCountDesc(a, b) == b.count - a.count

\* (a, b) => a.order - b.order: a comparator that forgets "Unknown", whose
\* order is indexOf's -1
ByRangeOrder_NoUnknown(a, b) == a.order - b.order

\* (a, b) => { if (a.name === "Unknown") return 1;
\*             if (b.name === "Unknown") return -1; return a.order - b.order }
ByRangeOrder(a, b) ==
    IF a.name = "Unknown" THEN 1
    ELSE IF b.name = "Unknown" THEN -1
    ELSE a.order - b.order

\* The comparators given to sort, by name
Compare(cmp, a, b) ==
    CASE cmp = "ByValueDesc" -> ByValueDesc(a, b)
      [] cmp = "ByCountDesc" -> ByCountDesc(a, b)
      [] cmp = "ByRangeOrder" -> ByRangeOrder(a, b)

\* A sort that places x before the elements it compares equal to: the order
\* of ties is reversed
InsertSorted_TiesReversed(sorted, x, cmp) ==
    LET behind == {i \in 1..Len(sorted) : Compare(cmp, sorted[i], x) < 0}
        k == IF behind = {} THEN 0
             ELSE CHOOSE i \in behind : \A j \in behind : j <= i
    IN  SubSeq(sorted, 1, k) \o <<x>> \o SubSeq(sorted, k + 1, Len(sorted))

\* Array.prototype.sort(cmp): a stable sort; x is placed behind every
\* element of the sorted prefix that does not compare greater than it.
InsertSorted(sorted, x, cmp) ==
    LET behind == {i \in 1..Len(sorted) : Compare(cmp, sorted[i], x) <= 0}
        k == IF behind = {} THEN 0
             ELSE CHOOSE i \in behind : \A j \in behind : j <= i
    IN  SubSeq(sorted, 1, k) \o <<x>> \o SubSeq(sorted, k + 1, Len(sorted))

Sort(s0, cmp) ==
    Only({ LET sorted[k \in 0..Len(s)] ==
                   IF k = 0 THEN <<>>
                   ELSE Only({ InsertSorted(prefix, s[k], cmp)
                               : prefix \in {sorted[k - 1]} })
           IN  sorted[Len(s)] : s \in {s0} })

\* ------------------------------------------------------------------------
\* Top-N limits of processData and calculateCountryIndustryStats
\* ------------------------------------------------------------------------
TopIndustries == 10
TopGroups == 10
TopCities == 20
TopCountryIndustries == 8
\* Limits of CountryDetailCard and CityListCard
TopDetailIndustries == 8
TopDetailGroups == 5
CollapsedCities == 10

\* ------------------------------------------------------------------------
\* processOrgStats
\* ------------------------------------------------------------------------
\* employeeRangeOrder.forEach(range => { employeeRanges[range] = 0 })
ZeroRanges(order) == [i \in 1..Len(order) |-> [name |-> order[i], value |-> 0]]

\* One entity's contribution to employeeRanges / revenueRanges:
\*   if (ranges.hasOwnProperty(range)) ranges[range]++
\*   else if (range !== "Unknown") ranges["Unknown"] = (ranges["Unknown"] || 0) + 1
CountRange(ranges, range) ==
    IF HasName(ranges, range) THEN Increment(ranges, range)
    ELSE IF range # "Unknown" THEN Increment(ranges, "Unknown")
    ELSE ranges

\* range => ranges[range] >= 0: a filter that keeps the empty buckets
NonZero_KeepsZero(e) == e.value >= 0

\* range => ranges[range] > 0
NonZero(e) == e.value > 0

\* Object.keys(ranges).filter(...).map(...).sort(...); SelectSeq is
\* Array.prototype.filter
FormatRanges(ranges, order) ==
    Only({ Sort([i \in 1..Len(kept) |->
                   [name |-> kept[i].name, value |-> kept[i].value,
                    order |-> IndexOf(order, kept[i].name)]],
                "ByRangeOrder")
           : kept \in {SelectSeq(ranges, NonZero)} })

\* entity.organization of a null entity throws a TypeError
ThrowsOn(entities) == \E i \in 1..Len(entities) : entities[i].kind = "null"

TypeErrorMessage == "Cannot read properties of null (reading 'organization')"

processOrgStats(entities) ==
    LET n == Len(entities)
        employeeRanges[k \in 0..n] ==
            IF k = 0 THEN ZeroRanges(employeeRangeOrder)
            ELSE Only({ CountRange(ranges,
                                   OrElse(entities[k].employees_range, "Unknown"))
                        : ranges \in {employeeRanges[k - 1]} })
        revenueRanges[k \in 0..n] ==
            IF k = 0 THEN ZeroRanges(revenueRangeOrder)
            ELSE Only({ CountRange(ranges,
                                   OrElse(entities[k].revenue_range, "Unknown"))
                        : ranges \in {revenueRanges[k - 1]} })
        orgStatuses[k \in 0..n] ==
            IF k = 0 THEN <<>>
            ELSE Only({ Increment(statuses, OrElse(entities[k].status, "Unknown"))
                        : statuses \in {orgStatuses[k - 1]} })
    IN  IF ThrowsOn(entities)
        THEN [threw |-> TRUE, employeeStats |-> <<>>, revenueStats |-> <<>>,
              statusStats |-> <<>>]
        ELSE [threw |-> FALSE,
              employeeStats |-> FormatRanges(employeeRanges[n], employeeRangeOrder),
              revenueStats |-> FormatRanges(revenueRanges[n], revenueRangeOrder),
              statusStats |-> Sort(orgStatuses[n], "ByValueDesc")]

\* ------------------------------------------------------------------------
\* processData
\* ------------------------------------------------------------------------
HasCountry(countries, code) == \E i \in 1..Len(countries) : countries[i].code = code

CountryAt(countries, code) ==
    countries[CHOOSE i \in 1..Len(countries) : countries[i].code = code]

HasCity(cities, city) == \E i \in 1..Len(cities) : cities[i].city = city

\* countryCode of an item: "UNK" unless geography.country_code is there
CountryCodeOf(item) ==
    IF item.country_code # Missing THEN ToUpperCase(item.country_code) ELSE "UNK"

\* The country branch of the loop body (lines 314-342)
AddToCountries(countries, item) ==
    LET countryCode == CountryCodeOf(item)
        countryName == OrElse(item.country,
                              IF countryCode = "UNK" THEN TGlobal ELSE countryCode)
        city == OrElse(item.city, TUnknown)
    IN  Only({ [i \in 1..Len(created) |->
                  IF created[i].code = countryCode
                  THEN [created[i] EXCEPT !.count = @ + 1,
                                          !.entities = Append(@, item),
                                          !.cities = Increment(@, city)]
                  ELSE created[i]]
               : created \in
                   { IF HasCountry(countries, countryCode) THEN countries
                     ELSE Append(countries,
                                 [code |-> countryCode, count |-> 0,
                                  cities |-> <<>>, entities |-> <<>>,
                                  name |-> countryName]) } })

\* The global city branch of the loop body (lines 344-352)
AddToAllCities(allCities, countries, item) ==
    LET countryCode == CountryCodeOf(item)
        city == OrElse(item.city, TUnknown)
    IN  Only({ [i \in 1..Len(created) |->
                  IF created[i].city = city
                  THEN [created[i] EXCEPT !.count = @ + 1]
                  ELSE created[i]]
               : created \in
                   { IF HasCity(allCities, city) THEN allCities
                     ELSE Append(allCities,
                                 [city |-> city, count |-> 0,
                                  countryCode |-> countryCode,
                                  countryName |->
                                      CountryAt(countries, countryCode).name]) } })

\* entities.forEach((item) => { if (!item) return; ... })
ProcessItem(acc, item) ==
    IF IsFalsy(item) THEN acc
    ELSE Only({ [countries |-> countries,
                 allCities |-> AddToAllCities(acc.allCities, countries, item),
                 industries |-> Increment(acc.industries,
                                          OrElse(item.industry, TUnknown)),
                 groups |-> Increment(acc.groups,
                                      OrElse(item.ransomware_group, TUnknown))]
                : countries \in {AddToCountries(acc.countries, item)} })

ProcessItems(entities) ==
    LET acc[k \in 0..Len(entities)] ==
            IF k = 0
            THEN [countries |-> <<>>, allCities |-> <<>>, industries |-> <<>>,
                  groups |-> <<>>]
            ELSE Only({ ProcessItem(prev, entities[k]) : prev \in {acc[k - 1]} })
    IN  acc[Len(entities)]

processData(entities) ==
    Only({ [threw |-> org.threw,
            data |-> entities,
            countryStats |-> acc.countries,
            industryStats |-> Slice(Sort(acc.industries, "ByValueDesc"), TopIndustries),
            groupStats |-> Slice(Sort(acc.groups, "ByValueDesc"), TopGroups),
            globalCities |-> Slice(Sort(acc.allCities, "ByCountDesc"), TopCities),
            employeeStats |-> org.employeeStats,
            revenueStats |-> org.revenueStats,
            statusStats |-> org.statusStats]
           : acc \in {ProcessItems(entities)}, org \in {processOrgStats(entities)} })

\* ------------------------------------------------------------------------
\* State of the page (Home) and of the map (MapChart)
\* ------------------------------------------------------------------------
VARIABLES
    response,             \* how the data endpoint answers the request
    payload,              \* the entity list in the body of the response
    requests,             \* number of fetch(DATA_PATH) calls issued so far
    data, loading, error, selectedCountry, countryStats, industryStats,
    groupStats, globalCities, employeeStats, revenueStats, statusStats,
    selectedCountryData, mapActive, chartAnimationKey,
    position,             \* MapChart: { coordinates, zoom }
    animations,           \* scroll animations in flight, in the order started
    started,              \* number of scroll animations started so far
    scrolledBy,           \* the animation that called window.scrollTo last
    showAllCities,        \* CityListCard: the list is expanded
    loadedView,           \* history: what the dashboard displayed after the load
    prevSelected,         \* history: selectedCountry before its last change
    last_updated,         \* RansomwareCard: site.data.last_updated
    now,                  \* RansomwareCard: the clock read by new Date()
    timeSinceUpdate,      \* RansomwareCard: the label rendered last
    themeStorage,         \* localStorage item 'theme'
    theme,                \* ThemeProvider: theme
    classList,            \* document.documentElement.classList
    themeStage,           \* the document: parsed, inline script run, ThemeProvider mounted
    themeEffects,         \* ThemeProvider: effects scheduled and not yet run, in order
    themeAtMount,         \* history: the theme item when ThemeProvider mounted
    themeSet,             \* history: setTheme was called since the mount
    reloads,              \* history: number of reloads of the document
    languageProvider,     \* the provider of the layout: LanguageProvider or TranslationProvider
    browserLang,          \* navigator.language.split('-')[0]
    languageStorage,      \* localStorage item 'language'
    language,             \* the provider's language
    languageStage,        \* the document: parsed, provider mounted
    languageEffects,      \* the provider's effects scheduled and not yet run, in order
    languageAtMount,      \* history: the language item when the provider mounted
    languageSwitched,     \* history: a switcher was used since the mount
    tooltipVisible,       \* MapChart: tooltipVisible
    tooltipContent,       \* MapChart: tooltipContent
    ignoredEvents,        \* history: a click or hover reached the map while it was disabled
    scrollY,              \* window.scrollY
    lastScrollY,          \* Home: lastScrollY
    listenerScrollY,      \* lastScrollY in the closure of the registered handleScroll
    isScrolling,          \* Home: isScrolling
    headerVisible,        \* Home: headerVisible
    scrollTimeoutPending, \* the timeout of scrollTimeout.current is set and not yet run or cleared
    zoomPosition,         \* zooming MapChart: position
    zoomTimeouts,         \* zooming MapChart: countries of the zoom timeouts set and not yet run, in order
    clearedByMap,         \* history: a re-click or the reset button cleared the selection, nothing selected or moved since
    localAnswer,          \* how the local URL answers: rejects, not_ok, ok
    remoteAnswer,         \* how the remote URL answers
    localBody,            \* the body of the local file
    remoteBody,           \* the body of the remote file
    geoStage,             \* fetchMapData: the await it stands at
    geoResponse,          \* fetchMapData: the response it holds
    mapData,              \* MapChart: mapData
    mapError,             \* MapChart: error
    localFetches,         \* number of fetch(localGeoUrl) calls
    remoteFetches         \* number of fetch(remoteGeoUrl) calls

vars == <<response, payload, requests, data, loading, error, selectedCountry, countryStats,
          industryStats, groupStats, globalCities, employeeStats, revenueStats,
          statusStats, selectedCountryData, mapActive, chartAnimationKey,
          position, animations, started, scrolledBy, showAllCities, loadedView,
          prevSelected, last_updated, now, timeSinceUpdate,
          themeStorage, theme, classList, themeStage, themeEffects, themeAtMount, themeSet,
          reloads,
          languageProvider, browserLang, languageStorage, language, languageStage, languageEffects, languageAtMount, languageSwitched,
          tooltipVisible, tooltipContent, ignoredEvents,
          scrollY, lastScrollY, listenerScrollY, isScrolling, headerVisible, scrollTimeoutPending,
          zoomPosition, zoomTimeouts, clearedByMap,
          localAnswer, remoteAnswer, localBody, remoteBody, geoStage, geoResponse, mapData, mapError, localFetches, remoteFetches>>

input == <<response, payload, requests>>
endpoint == <<response, payload>>
scroll == <<animations, started, scrolledBy>>
card == <<last_updated, now, timeSinceUpdate>>
themeState == <<themeStorage, theme, classList, themeStage, themeEffects, themeAtMount, themeSet, reloads>>
languageState == <<languageProvider, browserLang, languageStorage, language, languageStage, languageEffects, languageAtMount, languageSwitched>>
tooltip == <<tooltipVisible, tooltipContent, ignoredEvents>>
scrolling == <<scrollY, lastScrollY, listenerScrollY, isScrolling, headerVisible, scrollTimeoutPending>>
zoomMap == <<zoomPosition, zoomTimeouts, clearedByMap>>
geometry == <<localAnswer, remoteAnswer, localBody, remoteBody, geoStage, geoResponse, mapData, mapError, localFetches, remoteFetches>>
\* The components that share no state with the page
elsewhere == <<card, themeState, languageState, tooltip, scrolling, zoomMap, geometry>>
outside == <<scroll, showAllCities, elsewhere>>
aggregates == <<data, countryStats, industryStats, groupStats, globalCities>>
orgStats == <<employeeStats, revenueStats, statusStats>>

\* ------------------------------------------------------------------------
\* Inputs
\* ------------------------------------------------------------------------
EntityPool ==
    { Obj("USA", Missing, "Avalon", "Hospitality", "lockbit",
          "50-99", "$10M-$50M", "Private"),
      Obj("usa", Missing, "Avalon", "Healthcare", Missing,
          "1-9", Missing, "Public"),
      Obj("FRA", "France", "Paris", "Media", "akira",
          Missing, "$1M-$10M", Missing),
      Obj(Missing, Missing, Missing, Missing, "lockbit",
          "2-5", "<$1M", "Private"),
      NullEntity, FalsyEntity, TruthyEntity }

EntityLists == UNION {[1..n -> EntityPool] : n \in 0..MaxEntities}

\* Ids of the geographies of the world map; no entity is in DEU.
GeoIds == {"USA", "FRA", "DEU"}

HomePosition == [coordinates |-> <<0, 0>>, zoom |-> 1]
\* Where a user's pan and zoom can leave the map
Positions == {HomePosition, [coordinates |-> <<10, 20>>, zoom |-> 2]}

\* ------------------------------------------------------------------------
\* What the dashboard displays
\* ------------------------------------------------------------------------
IndustriesOf(entities) ==
    LET industries[k \in 0..Len(entities)] ==
            IF k = 0 THEN <<>>
            ELSE Only({ Increment(prev, OrElse(entities[k].industry, TUnknown))
                        : prev \in {industries[k - 1]} })
    IN  industries[Len(entities)]

calculateCountryIndustryStats ==
    IF selectedCountry = Null \/ Len(selectedCountryData) = 0 THEN <<>>
    ELSE Slice(Sort(IndustriesOf(selectedCountryData), "ByValueDesc"),
               TopCountryIndustries)

\* data={selectedCountry ? selectedCountryIndustries : industryStats}
DisplayedIndustries ==
    IF selectedCountry # Null THEN calculateCountryIndustryStats ELSE industryStats

\* data={groupStats} of the group pie chart, value={groupStats.length}
DisplayedGroups == groupStats

View ==
    [industry |-> DisplayedIndustries, group |-> DisplayedGroups,
     employee |-> employeeStats, revenue |-> revenueStats,
     status |-> statusStats, globalCities |-> globalCities,
     countryStats |-> countryStats]

\* The dashboard (and the map in it) is rendered: neither skeleton nor error
Rendered == ~loading /\ error = Null

\* ------------------------------------------------------------------------
\* Initial state: the state after construction (useState initial values)
\* ------------------------------------------------------------------------
InitPage ==
    /\ requests = 0
    /\ data = <<>>
    /\ loading = TRUE
    /\ error = Null
    /\ selectedCountry = Null
    /\ countryStats = <<>>
    /\ industryStats = <<>>
    /\ groupStats = <<>>
    /\ globalCities = <<>>
    /\ employeeStats = <<>>
    /\ revenueStats = <<>>
    /\ statusStats = <<>>
    /\ selectedCountryData = <<>>
    /\ mapActive = FALSE
    /\ chartAnimationKey = 0
    /\ position = HomePosition
    /\ animations = <<>>
    /\ started = 0
    /\ scrolledBy = 0
    /\ showAllCities = FALSE
    /\ loadedView = View
    /\ prevSelected = Null

\* data.last_updated: absent, a string that new Date() cannot parse (getTime()
\* is NaN), or the date string of an instant in milliseconds
NoDate == [given |-> FALSE, valid |-> FALSE, ms |-> 0]
InvalidDate == [given |-> TRUE, valid |-> FALSE, ms |-> 0]
DateString(ms) == [given |-> TRUE, valid |-> TRUE, ms |-> ms]
NaN == "NaN"

\* No label is on the screen yet
NoLabel == [count |-> Missing, unit |-> Null, suffix |-> ""]

\* The head of the queue of effects of a provider: none is pending
NoEffects == <<>>

\* tooltipContent of useState("")
NoTooltip == [name |-> "", count |-> 0, text |-> ""]

\* The other components as constructed, with no input of their own
CardIdle ==
    /\ last_updated = NoDate
    /\ now = 0
    /\ timeSinceUpdate = NoLabel

ThemeIdle ==
    /\ themeStorage = Missing
    /\ theme = "light"
    /\ classList = {"light"}
    /\ themeStage = "html"
    /\ themeEffects = NoEffects
    /\ themeAtMount = Missing
    /\ themeSet = FALSE
    /\ reloads = 0

LanguageIdle ==
    /\ languageProvider = "LanguageProvider"
    /\ browserLang = "en"
    /\ languageStorage = Missing
    /\ language = "en"
    /\ languageStage = "html"
    /\ languageEffects = NoEffects
    /\ languageAtMount = Missing
    /\ languageSwitched = FALSE

TooltipIdle ==
    /\ tooltipVisible = FALSE
    /\ tooltipContent = NoTooltip
    /\ ignoredEvents = FALSE

ScrollingIdle ==
    /\ scrollY = 0
    /\ lastScrollY = 0
    /\ listenerScrollY = 0
    /\ isScrolling = FALSE
    /\ headerVisible = TRUE
    /\ scrollTimeoutPending = FALSE

ZoomMapIdle ==
    /\ zoomPosition = HomePosition
    /\ zoomTimeouts = <<>>
    /\ clearedByMap = FALSE

GeometryIdle ==
    /\ localAnswer = "ok"
    /\ remoteAnswer = "ok"
    /\ localBody = "topology"
    /\ remoteBody = "topology"
    /\ geoStage = "mounted"
    /\ geoResponse = Null
    /\ mapData = Null
    /\ mapError = Null
    /\ localFetches = 0
    /\ remoteFetches = 0

InitElsewhere ==
    /\ CardIdle
    /\ ThemeIdle
    /\ LanguageIdle
    /\ TooltipIdle
    /\ ScrollingIdle
    /\ ZoomMapIdle
    /\ GeometryIdle

IdleApartFromCard ==
    /\ ThemeIdle
    /\ LanguageIdle
    /\ TooltipIdle
    /\ ScrollingIdle
    /\ ZoomMapIdle
    /\ GeometryIdle

IdleApartFromTheme ==
    /\ CardIdle
    /\ LanguageIdle
    /\ TooltipIdle
    /\ ScrollingIdle
    /\ ZoomMapIdle
    /\ GeometryIdle

IdleApartFromLanguage ==
    /\ CardIdle
    /\ ThemeIdle
    /\ TooltipIdle
    /\ ScrollingIdle
    /\ ZoomMapIdle
    /\ GeometryIdle

IdleApartFromTooltip ==
    /\ CardIdle
    /\ ThemeIdle
    /\ LanguageIdle
    /\ ScrollingIdle
    /\ ZoomMapIdle
    /\ GeometryIdle

IdleApartFromScrolling ==
    /\ CardIdle
    /\ ThemeIdle
    /\ LanguageIdle
    /\ TooltipIdle
    /\ ZoomMapIdle
    /\ GeometryIdle

IdleApartFromZoomMap ==
    /\ CardIdle
    /\ ThemeIdle
    /\ LanguageIdle
    /\ TooltipIdle
    /\ ScrollingIdle
    /\ GeometryIdle

IdleApartFromGeometry ==
    /\ CardIdle
    /\ ThemeIdle
    /\ LanguageIdle
    /\ TooltipIdle
    /\ ScrollingIdle
    /\ ZoomMapIdle

Init ==
    /\ response = "entities"
    /\ payload \in EntityLists
    /\ InitPage
    /\ InitElsewhere

\* ------------------------------------------------------------------------
\* fetchData: processData(jsonData.entities || []) inside try / catch / finally,
\* called once by the effect that runs on mount
\* ------------------------------------------------------------------------
\* error.message of what is thrown before processData is called, Null when
\* nothing is: fetch rejects, response.ok is false, response.json() rejects,
\* jsonData is null (jsonData.entities throws)
FetchError(resp) ==
    CASE resp = "network_error" -> "Failed to fetch"
      [] resp = "http_404" -> "HTTP error! status: 404"
      [] resp = "http_500" -> "HTTP error! status: 500"
      [] resp = "invalid_json" -> "Unexpected end of JSON input"
      [] resp = "json_null" -> "Cannot read properties of null (reading 'entities')"
      [] OTHER -> Null

\* entities.forEach of a value that is no array
NotArrayMessage == "entities.forEach is not a function"

\* jsonData.entities || []: only an object with an `entities` key has one
EntitiesOrEmpty(resp, body) == IF resp = "entities" THEN body ELSE <<>>

\* A handler that asks again when the request fails
FetchData_Retries ==
    /\ loading
    /\ requests < 3
    /\ requests' = requests + 1
    /\ \E r \in {processData(EntitiesOrEmpty(response, payload))} :
           IF FetchError(response) # Null \/ response = "entities_not_array" \/ r.threw
           THEN /\ error' = Null
                /\ loading' = TRUE
                /\ UNCHANGED <<aggregates, orgStats>>
           ELSE /\ error' = error
                /\ loading' = FALSE
                /\ data' = r.data
                /\ countryStats' = r.countryStats
                /\ industryStats' = r.industryStats
                /\ groupStats' = r.groupStats
                /\ globalCities' = r.globalCities
                /\ employeeStats' = r.employeeStats
                /\ revenueStats' = r.revenueStats
                /\ statusStats' = r.statusStats
    /\ UNCHANGED <<endpoint, selectedCountry, selectedCountryData, mapActive,
                   chartAnimationKey, position, outside, prevSelected>>
    /\ loadedView' = View'

FetchData ==
    /\ loading
    /\ requests' = requests + 1
    /\ \E r \in {processData(EntitiesOrEmpty(response, payload))} :
           IF FetchError(response) # Null
           THEN /\ error' = FetchError(response)
                /\ UNCHANGED <<aggregates, orgStats>>
           ELSE IF response = "entities_not_array"
           THEN /\ error' = NotArrayMessage
                /\ UNCHANGED <<aggregates, orgStats>>
           ELSE IF r.threw
           THEN /\ error' = TypeErrorMessage
                /\ UNCHANGED <<aggregates, orgStats>>
           ELSE /\ error' = error
                /\ data' = r.data
                /\ countryStats' = r.countryStats
                /\ industryStats' = r.industryStats
                /\ groupStats' = r.groupStats
                /\ globalCities' = r.globalCities
                /\ employeeStats' = r.employeeStats
                /\ revenueStats' = r.revenueStats
                /\ statusStats' = r.statusStats
    /\ loading' = FALSE
    /\ UNCHANGED <<endpoint, selectedCountry, selectedCountryData, mapActive,
                   chartAnimationKey, position, outside, prevSelected>>
    /\ loadedView' = View'

\* ------------------------------------------------------------------------
\* handleCountrySelect(countryCode)
\* ------------------------------------------------------------------------
\* A handler that sets the selection and its entities but leaves the
\* organization stats as they are
handleCountrySelect_KeepsOrgStats(countryCode) ==
    IF countryCode = selectedCountry
    THEN /\ selectedCountry' = Null
         /\ selectedCountryData' = <<>>
         /\ chartAnimationKey' = chartAnimationKey + 1
         /\ UNCHANGED orgStats
    ELSE /\ selectedCountry' = countryCode
         /\ IF HasCountry(countryStats, countryCode)
            THEN /\ selectedCountryData' = CountryAt(countryStats, countryCode).entities
                 /\ chartAnimationKey' = chartAnimationKey + 1
                 /\ UNCHANGED orgStats
            ELSE UNCHANGED <<selectedCountryData, orgStats, chartAnimationKey>>

handleCountrySelect(countryCode) ==
    IF countryCode = selectedCountry
    THEN \E org \in {processOrgStats(data)} :
             /\ selectedCountry' = Null
             /\ selectedCountryData' = <<>>
             /\ employeeStats' = org.employeeStats
             /\ revenueStats' = org.revenueStats
             /\ statusStats' = org.statusStats
             /\ chartAnimationKey' = chartAnimationKey + 1
    ELSE /\ selectedCountry' = countryCode
         /\ IF HasCountry(countryStats, countryCode)
            THEN \E countryEntities \in {CountryAt(countryStats, countryCode).entities} :
                 \E org \in {processOrgStats(countryEntities)} :
                     /\ selectedCountryData' = countryEntities
                     /\ employeeStats' = org.employeeStats
                     /\ revenueStats' = org.revenueStats
                     /\ statusStats' = org.statusStats
                     /\ chartAnimationKey' = chartAnimationKey + 1
            ELSE UNCHANGED <<selectedCountryData, orgStats, chartAnimationKey>>

\* MapChart effect on [selectedCountry]: reset zoom when the selection is cleared
ResetZoomEffect(pos) ==
    IF selectedCountry' # selectedCountry /\ selectedCountry' = Null
    THEN HomePosition ELSE pos

\* History of the selection, recorded with every handler that may change it
RecordSelection ==
    prevSelected' = IF selectedCountry' # selectedCountry
                    THEN selectedCountry ELSE prevSelected

\* ------------------------------------------------------------------------
\* MapChart handlers
\* ------------------------------------------------------------------------
\* A click handler whose selection replaces `data` by the country's entities
MapClick_SetsData(countryId) ==
    /\ Rendered
    /\ chartAnimationKey < MaxAnimKey
    /\ IF ~mapActive
       THEN UNCHANGED <<selectedCountry, selectedCountryData, orgStats,
                        chartAnimationKey, position, data>>
       ELSE IF HasCountry(countryStats, countryId)
       THEN IF selectedCountry = countryId
            THEN /\ handleCountrySelect(Null)
                 /\ position' = HomePosition
                 /\ UNCHANGED data
            ELSE /\ handleCountrySelect(countryId)
                 /\ position' = ResetZoomEffect(position)
                 /\ data' = selectedCountryData'
       ELSE UNCHANGED <<selectedCountry, selectedCountryData, orgStats,
                        chartAnimationKey, position, data>>
    /\ RecordSelection
    /\ UNCHANGED <<input, countryStats, industryStats, groupStats, globalCities,
                   loading, error, mapActive, loadedView>>

\* handleCountryClick(geo)
\* A click handler that does not test countryStats[countryId]
MapClick_AnyGeography(countryId) ==
    /\ Rendered
    /\ chartAnimationKey < MaxAnimKey
    /\ IF ~mapActive
       THEN UNCHANGED <<selectedCountry, selectedCountryData, orgStats,
                        chartAnimationKey, position>>
       ELSE IF selectedCountry = countryId
            THEN /\ handleCountrySelect(Null)
                 /\ position' = HomePosition
            ELSE /\ handleCountrySelect(countryId)
                 /\ position' = ResetZoomEffect(position)
    /\ RecordSelection
    /\ UNCHANGED <<input, aggregates, loading, error, mapActive, loadedView>>

MapClick(countryId) ==
    /\ Rendered
    /\ chartAnimationKey < MaxAnimKey
    /\ IF ~mapActive                                   \* if (disabled) return
       THEN UNCHANGED <<selectedCountry, selectedCountryData, orgStats,
                        chartAnimationKey, position>>
       ELSE IF HasCountry(countryStats, countryId)
       THEN IF selectedCountry = countryId
            THEN /\ handleCountrySelect(Null)
                 /\ position' = HomePosition
            ELSE /\ handleCountrySelect(countryId)
                 /\ position' = ResetZoomEffect(position)
       ELSE UNCHANGED <<selectedCountry, selectedCountryData, orgStats,
                        chartAnimationKey, position>>
    /\ RecordSelection
    /\ UNCHANGED <<input, aggregates, loading, error, mapActive, loadedView>>

\* handleReset, the button shown while position.zoom > 1
MapReset ==
    /\ Rendered
    /\ position.zoom > 1
    /\ chartAnimationKey < MaxAnimKey
    /\ handleCountrySelect(Null)
    /\ position' = HomePosition
    /\ RecordSelection
    /\ UNCHANGED <<input, aggregates, loading, error, mapActive, loadedView>>

\* onMoveEnd={setPosition}: the user pans or zooms the activated map
MapMoveEnd(pos) ==
    /\ Rendered
    /\ mapActive
    /\ position' = pos
    /\ UNCHANGED <<input, aggregates, orgStats, loading, error, mapActive,
                   selectedCountry, selectedCountryData, chartAnimationKey,
                   outside, loadedView, prevSelected>>

\* ------------------------------------------------------------------------
\* Home handlers
\* ------------------------------------------------------------------------
\* onClick={!mapActive ? activateMap : undefined}
ActivateMap ==
    /\ Rendered
    /\ ~mapActive
    /\ mapActive' = TRUE
    /\ UNCHANGED <<input, aggregates, orgStats, loading, error,
                   selectedCountry, selectedCountryData, chartAnimationKey,
                   position, outside, loadedView, prevSelected>>

\* onClose of the CountryDetailCard, rendered while
\* selectedCountry && countryStats[selectedCountry]
DetailClose ==
    /\ Rendered
    /\ selectedCountry # Null
    /\ HasCountry(countryStats, selectedCountry)
    /\ chartAnimationKey < MaxAnimKey
    /\ \E org \in {processOrgStats(data)} :
           /\ selectedCountry' = Null
           /\ selectedCountryData' = <<>>
           /\ employeeStats' = org.employeeStats
           /\ revenueStats' = org.revenueStats
           /\ statusStats' = org.statusStats
           /\ chartAnimationKey' = chartAnimationKey + 1
    /\ position' = ResetZoomEffect(position)
    /\ RecordSelection
    /\ UNCHANGED <<input, aggregates, loading, error, mapActive, loadedView>>

\* The page without its scroll animation, which writes nothing the page
\* reads but chartAnimationKey, and without the state of the city list card:
\* the selection handlers leave `outside` as it is.
Next ==
    \/ FetchData
    \/ ActivateMap
    \/ \E countryId \in GeoIds : MapClick(countryId) /\ UNCHANGED outside
    \/ MapReset /\ UNCHANGED outside
    \/ \E pos \in Positions : MapMoveEnd(pos)
    \/ DetailClose /\ UNCHANGED outside

Spec == Init /\ [][Next]_vars

\* The load alone: the aggregation as a function of the entity list
SpecLoad == Init /\ [][FetchData]_vars

\* ------------------------------------------------------------------------
\* The selection callback as any consumer of `onSelectCountry` may call it:
\* (code: string | null) -> void, with a code the map would not pass as well
\* ------------------------------------------------------------------------
CallbackCodes == GeoIds \cup {"UNK"}

SelectCallback(countryCode) ==
    /\ Rendered
    /\ chartAnimationKey < MaxAnimKey
    /\ handleCountrySelect(countryCode)
    /\ position' = ResetZoomEffect(position)
    /\ RecordSelection
    /\ UNCHANGED <<input, aggregates, loading, error, mapActive, loadedView>>

NextCallback ==
    \/ Next
    \/ \E countryCode \in CallbackCodes :
           SelectCallback(countryCode) /\ UNCHANGED outside

SpecCallback == Init /\ [][NextCallback]_vars

\* ------------------------------------------------------------------------
\* The scroll-to-charts effect on [selectedCountry] and the animation it
\* starts: setTimeout(scrollWithAnimation, SCROLL_ANIMATION_DELAY), then one
\* animateScroll per animation frame until progress reaches 1.  The effect
\* has no cleanup: no timeout is cleared and no frame request cancelled.
\* ------------------------------------------------------------------------
\* if (selectedCountry && chartsRef.current) setTimeout(scrollWithAnimation, ...)
ScrollEffect ==
    IF selectedCountry' # selectedCountry /\ selectedCountry' # Null
    THEN /\ started' = started + 1
         /\ animations' = Append(animations, [gen |-> started + 1,
                                               phase |-> "pending", frames |-> 0])
         /\ UNCHANGED scrolledBy
    ELSE UNCHANGED scroll

\* Everything but the scroll state and chartAnimationKey
page == <<input, aggregates, orgStats, loading, error, selectedCountry,
          selectedCountryData, mapActive, position, loadedView, prevSelected>>

\* The timeout of the i-th animation in flight fires; timeouts of one delay
\* fire in the order they were set.
scrollWithAnimation(i) ==
    /\ animations[i].phase = "pending"
    /\ \A j \in 1..(i - 1) : animations[j].phase = "running"
    /\ animations' = [animations EXCEPT ![i].phase = "running"]
    /\ UNCHANGED <<page, chartAnimationKey, started, scrolledBy, showAllCities, elsewhere>>

\* Without the i-th element
RemoveAt(s, i) == SubSeq(s, 1, i - 1) \o SubSeq(s, i + 1, Len(s))

\* One animation frame of the i-th animation in flight: window.scrollTo, then
\* requestAnimationFrame(animateScroll) while progress < 1, else
\* setChartAnimationKey(prev => prev + 1).  An animation started earlier is
\* never behind one started later.
animateScroll(i) ==
    /\ animations[i].phase = "running"
    /\ \A j \in 1..(i - 1) : animations[j].frames > animations[i].frames
    /\ scrolledBy' = animations[i].gen
    /\ IF animations[i].frames + 1 < MaxFrames
       THEN /\ animations' = [animations EXCEPT ![i].frames = @ + 1]
            /\ UNCHANGED chartAnimationKey
       ELSE /\ chartAnimationKey < MaxAnimKey
            /\ animations' = RemoveAt(animations, i)
            /\ chartAnimationKey' = chartAnimationKey + 1
    /\ UNCHANGED <<page, started, showAllCities, elsewhere>>

NextScroll ==
    \/ FetchData
    \/ ActivateMap
    \/ \E countryId \in GeoIds :
           MapClick(countryId) /\ ScrollEffect /\ UNCHANGED <<showAllCities, elsewhere>>
    \/ DetailClose /\ ScrollEffect /\ UNCHANGED <<showAllCities, elsewhere>>
    \/ \E i \in 1..Len(animations) : scrollWithAnimation(i)
    \/ \E i \in 1..Len(animations) : animateScroll(i)

\* One entity in each of two countries of the map
ScrollList ==
    << Obj("USA", Missing, "Avalon", "Hospitality", "lockbit",
           "50-99", "$10M-$50M", "Private"),
       Obj("FRA", "France", "Paris", "Media", "akira",
           Missing, "$1M-$10M", Missing) >>

InitScroll ==
    /\ response = "entities"
    /\ payload = ScrollList
    /\ InitPage
    /\ InitElsewhere

SpecScroll == InitScroll /\ [][NextScroll]_vars

\* ------------------------------------------------------------------------
\* The answers of the data endpoint: a rejected request, a non-OK status, a
\* body that is no JSON, and the JSON values null, [entity, ...] (a bare
\* array), {} (no `entities` key), {entities: "..."} and {entities: [...]}.
\* ------------------------------------------------------------------------
Responses ==
    {"network_error", "http_404", "http_500", "invalid_json", "json_null",
     "bare_array", "no_entities_key", "entities_not_array", "entities"}

\* The responses whose body carries an entity list
WithList == {"bare_array", "entities"}

FetchedPool ==
    { Obj("USA", Missing, "Avalon", "Hospitality", "lockbit",
          "50-99", "$10M-$50M", "Private"),
      Obj("FRA", "France", "Paris", "Media", "akira",
          Missing, "$1M-$10M", Missing) }

FetchedLists == UNION {[1..n -> FetchedPool] : n \in 0..MaxFetched}

InitFetch ==
    /\ response \in Responses
    /\ payload \in (IF response \in WithList THEN FetchedLists ELSE {<<>>})
    /\ InitPage
    /\ InitElsewhere

SpecFetch == InitFetch /\ [][Next]_vars

\* ------------------------------------------------------------------------
\* Long entity lists for the top-N limits: entity i either brings the i-th
\* industry and group name or repeats the first one; the first entity may
\* lack both.
\* ------------------------------------------------------------------------
IndustryNames ==
    <<"Hospitality", "Media", "Non-profit", "Healthcare", "Education",
      "Manufacturing", "Retail", "Technology", "Finance", "Legal",
      "Construction", "Energy", "Transportation", "Government">>

GroupNames ==
    <<"lockbit", "akira", "play", "blackcat", "clop", "medusa", "rhysida",
      "bianlian", "qilin", "royal", "cactus", "hunters", "ransomhub", "8base">>

LongEntity(i, fresh) ==
    Obj("USA", Missing, "Avalon",
        IF fresh THEN IndustryNames[i]
        ELSE IF i = 1 THEN Missing ELSE IndustryNames[1],
        IF fresh THEN GroupNames[i]
        ELSE IF i = 1 THEN Missing ELSE GroupNames[1],
        "50-99", "$10M-$50M", "Private")

LongLists ==
    UNION { { [i \in 1..n |-> LongEntity(i, fresh[i])] : fresh \in [1..n -> BOOLEAN] }
            : n \in 0..MaxLong }

InitTopN ==
    /\ response = "entities"
    /\ payload \in LongLists
    /\ InitPage
    /\ InitElsewhere

SpecTopN == InitTopN /\ [][FetchData]_vars

\* ------------------------------------------------------------------------
\* Entity lists for the global city list: k entities of k distinct cities of
\* one country, followed by at most three entities that repeat the first
\* city from another country, bring a new city, or repeat the last city.
\* ------------------------------------------------------------------------
CityNames ==
    <<"Avalon", "Bergen", "Cadiz", "Delft", "Erfurt", "Faro", "Ghent", "Hanoi",
      "Izmir", "Jena", "Kyoto", "Lima", "Minsk", "Nantes", "Oslo", "Porto",
      "Quito", "Riga", "Split", "Turin", "Ulm", "Vigo", "Wels", "Xanten",
      "York">>

CityEntity(cc, country, city) ==
    Obj(cc, country, city, "Media", "akira", "50-99", "$10M-$50M", "Private")

BaseCities(k) == [i \in 1..k |-> CityEntity("USA", Missing, CityNames[i])]

TailPool(k) ==
    { CityEntity("FRA", "France", CityNames[1]),
      CityEntity("USA", "United States", "Zenith"),
      CityEntity("USA", Missing, IF k = 0 THEN Missing ELSE CityNames[k]) }

CityLists ==
    UNION { { BaseCities(k) \o tail
              : tail \in UNION {[1..n -> TailPool(k)] : n \in 0..3} }
            : k \in 0..MaxCities }

InitCities ==
    /\ response = "entities"
    /\ payload \in CityLists
    /\ InitPage
    /\ InitElsewhere

SpecCities == InitCities /\ [][FetchData]_vars

\* ------------------------------------------------------------------------
\* The lists of CountryDetailCard and of CityListCard
\* ------------------------------------------------------------------------
\* groupMap[group] = (groupMap[group] || 0) + 1 over the entities
GroupsOf(entities) ==
    LET groupMap[k \in 0..Len(entities)] ==
            IF k = 0 THEN <<>>
            ELSE Only({ Increment(prev, OrElse(entities[k].ransomware_group, "Unknown"))
                        : prev \in {groupMap[k - 1]} })
    IN  groupMap[Len(entities)]

\* industryData and groupData of the card of the selected country
industryData(entities) ==
    Slice(Sort(IndustriesOf(entities), "ByValueDesc"), TopDetailIndustries)
groupData(entities) ==
    Slice(Sort(GroupsOf(entities), "ByValueDesc"), TopDetailGroups)

\* The page renders CountryDetailCard for a selected country of countryStats,
\* and CityListCard otherwise when globalCities is not empty
DetailCardShown ==
    Rendered /\ selectedCountry # Null /\ HasCountry(countryStats, selectedCountry)
CityCardShown == Rendered /\ ~DetailCardShown /\ Len(globalCities) > 0

\* A card that shows the first cities whether expanded or not
cityEntries_NeverAll == Slice(globalCities, CollapsedCities)

\* cityEntries of CityListCard
cityEntries ==
    IF showAllCities THEN globalCities ELSE Slice(globalCities, CollapsedCities)

\* allCityEntries.length > 10 && <button onClick={toggleAllCities}>
ExpandOffered == CityCardShown /\ Len(globalCities) > CollapsedCities

toggleAllCities ==
    /\ ExpandOffered
    /\ showAllCities' = ~showAllCities
    /\ UNCHANGED <<page, chartAnimationKey, scroll, elsewhere>>

\* useState(false) of a CityListCard that is mounted anew: the card loses its
\* state when the page renders the detail card in its place
CardLifecycle == showAllCities' = IF CityCardShown' THEN showAllCities ELSE FALSE

\* Entity lists of k entities of one country with k distinct cities,
\* industries and groups, alone or followed by one more entity
ShownEntity(i) ==
    Obj("USA", Missing, CityNames[i], IndustryNames[i], GroupNames[i],
        "50-99", "$10M-$50M", "Private")

ShownLists ==
    UNION { { [i \in 1..k |-> ShownEntity(i)] \o tail
              : tail \in { <<>>,
                           << Obj("FRA", "France", "Paris", "Media", "akira",
                                  Missing, "$1M-$10M", Missing) >>,
                           << Obj("USA", Missing, Missing, Missing, Missing,
                                  "1-9", Missing, "Public") >> } }
            : k \in 0..MaxShown }

InitDisplay ==
    /\ response = "entities"
    /\ payload \in ShownLists
    /\ InitPage
    /\ InitElsewhere

NextDisplay ==
    \/ FetchData
    \/ ActivateMap
    \/ \E countryId \in GeoIds :
           MapClick(countryId) /\ CardLifecycle /\ UNCHANGED <<scroll, elsewhere>>
    \/ DetailClose /\ CardLifecycle /\ UNCHANGED <<scroll, elsewhere>>
    \/ toggleAllCities

SpecDisplay == InitDisplay /\ [][NextDisplay]_vars

\* ------------------------------------------------------------------------
\* EnhancedPieChart: the percentages of the entries of one chart
\* ------------------------------------------------------------------------
\* The components that share no state with the page: what each leaves alone
\* ------------------------------------------------------------------------
home == <<page, chartAnimationKey, scroll, showAllCities>>
apartFromCard == <<home, themeState, languageState, tooltip, scrolling, zoomMap, geometry>>
apartFromTheme == <<home, card, languageState, tooltip, scrolling, zoomMap, geometry>>
apartFromLanguage == <<home, card, themeState, tooltip, scrolling, zoomMap, geometry>>
apartFromTooltip == <<home, card, themeState, languageState, scrolling, zoomMap, geometry>>
apartFromScrolling == <<home, card, themeState, languageState, tooltip, zoomMap, geometry>>
apartFromZoomMap == <<home, card, themeState, languageState, tooltip, scrolling, geometry>>
apartFromGeometry == <<home, card, themeState, languageState, tooltip, scrolling, zoomMap>>
peersOfTooltip == <<card, themeState, languageState, scrolling, zoomMap, geometry>>
peersOfScrolling == <<card, themeState, languageState, tooltip, zoomMap, geometry>>
peersOfZoomMap == <<card, themeState, languageState, tooltip, scrolling, geometry>>

\* ------------------------------------------------------------------------
\* RansomwareCard: the label of the time since the site's last update
\* ------------------------------------------------------------------------
\* The page mounted with an empty entity list, left alone
InitHome ==
    /\ response = "entities"
    /\ payload = <<>>
    /\ InitPage

MsPerMinute == 1000 * 60
MsPerHour == 1000 * 60 * 60
HoursPerDay == 24

\* Math.floor(num / den) for den > 0
MathFloor_Rounds(num, den) == (2 * num + den) \div (2 * den)
MathFloor(num, den) == num \div den

\* The template literal `${n} ${unit}${n !== 1 ? 's' : ''} ago`, kept in parts
Ago(n, unit) == [count |-> n, unit |-> unit, suffix |-> IF n # 1 THEN "s" ELSE ""]

getTimeSinceUpdate(updated, clock) ==
    IF ~updated.given THEN [count |-> Missing, unit |-> TUnknown, suffix |-> ""]
    ELSE IF ~updated.valid
    THEN \* NaN < 1 and NaN < 24 are false, NaN !== 1 is true
         [count |-> NaN, unit |-> "day", suffix |-> "s"]
    ELSE LET diffMs == clock - updated.ms
             diffHours == MathFloor(diffMs, MsPerHour)
         IN  IF diffHours < 1 THEN Ago(MathFloor(diffMs, MsPerMinute), "minute")
             ELSE IF diffHours < HoursPerDay THEN Ago(diffHours, "hour")
             ELSE Ago(MathFloor(diffHours, HoursPerDay), "day")

\* The card is rendered
RenderCard ==
    /\ timeSinceUpdate' = getTimeSinceUpdate(last_updated, now)
    /\ UNCHANGED <<apartFromCard, last_updated, now>>

\* Instants in milliseconds, on and just before the minute at the start, the
\* second and the end of an hour, at the start, the second and the end of a day
Instants ==
    { d * HoursPerDay * MsPerHour + h * MsPerHour + mi * MsPerMinute + ms
      : d \in 0..MaxDays, h \in {0, 1, HoursPerDay - 1}, mi \in {0, 1, 59},
        ms \in {0, MsPerMinute - 1} }

InitCard ==
    /\ InitHome
    /\ IdleApartFromCard
    /\ last_updated \in {DateString(ms) : ms \in Instants} \cup {NoDate, InvalidDate}
    /\ now \in Instants
    /\ timeSinceUpdate = NoLabel

SpecCard == InitCard /\ [][RenderCard]_vars

\* ------------------------------------------------------------------------
\* RootLayout and ThemeProvider: the theme, the class of the document root
\* and the localStorage item 'theme'.  The effects of a component run after
\* the render that schedules them, in the order they are declared.
\* ------------------------------------------------------------------------
\* What the switchers can pass to setTheme
Themes == {"light", "dark", "system"}
\* What localStorage can hold under 'theme' when the document loads
StoredThemes == {Missing, "light", "dark", "system", "sepia"}

\* classList.remove('light'); classList.remove('dark'); classList.add(theme)
updateDocumentClass(classes, t) == (classes \ {"light", "dark"}) \cup {t}

\* <html className="light"> and the inline script of <head>
InlineThemeScript ==
    /\ themeStage = "html"
    /\ themeStage' = "script"
    /\ classList' = updateDocumentClass(classList,
                        IF themeStorage = "dark" THEN "dark" ELSE "light")
    /\ UNCHANGED <<apartFromTheme, themeStorage, theme, themeEffects,
                   themeAtMount, themeSet, reloads>>

SaveThemeEffect(t) == [effect |-> "save", theme |-> t]
LoadThemeEffect == [effect |-> "load", theme |-> Missing]

\* First render of ThemeProvider, useState('light'): both effects are
\* scheduled, the one on [theme] before the one that loads the saved theme
MountThemeProvider ==
    /\ themeStage = "script"
    /\ themeStage' = "mounted"
    /\ themeEffects' = <<SaveThemeEffect(theme), LoadThemeEffect>>
    /\ themeAtMount' = themeStorage
    /\ UNCHANGED <<apartFromTheme, themeStorage, theme, classList, themeSet, reloads>>

\* setTheme(t): a render with the new theme schedules the effect on [theme]
ScheduleSave(effects, t) ==
    IF t # theme THEN Append(effects, SaveThemeEffect(t)) ELSE effects

\* The effect at the head of the queue runs
RunThemeEffect ==
    /\ themeStage = "mounted"
    /\ themeEffects # NoEffects
    /\ IF Head(themeEffects).effect = "save"
       THEN \* updateDocumentClass(theme); localStorage.setItem('theme', theme)
            /\ classList' = updateDocumentClass(classList, Head(themeEffects).theme)
            /\ themeStorage' = Head(themeEffects).theme
            /\ themeEffects' = Tail(themeEffects)
            /\ UNCHANGED theme
       ELSE \* savedTheme = localStorage.getItem('theme')
            IF themeStorage # Missing /\ themeStorage \in {"light", "dark"}
            THEN /\ theme' = themeStorage
                 /\ classList' = updateDocumentClass(classList, themeStorage)
                 /\ themeEffects' = ScheduleSave(Tail(themeEffects), themeStorage)
                 /\ UNCHANGED themeStorage
            ELSE /\ themeEffects' = Tail(themeEffects)
                 /\ UNCHANGED <<theme, classList, themeStorage>>
    /\ UNCHANGED <<apartFromTheme, themeStage, themeAtMount, themeSet, reloads>>

\* ThemeSwitcher: the select's onChange and toggleTheme, once the effects of
\* the last render have run
setTheme(t) ==
    /\ themeStage = "mounted"
    /\ themeEffects = NoEffects
    /\ t # theme
    /\ theme' = t
    /\ themeEffects' = ScheduleSave(themeEffects, t)
    /\ themeSet' = TRUE
    /\ UNCHANGED <<apartFromTheme, themeStorage, classList, themeStage, themeAtMount,
                   reloads>>

\* The page is reloaded: localStorage is all that is kept
ReloadTheme ==
    /\ themeStage = "mounted"
    /\ reloads < MaxReloads
    /\ reloads' = reloads + 1
    /\ themeStage' = "html"
    /\ theme' = "light"
    /\ classList' = {"light"}
    /\ themeEffects' = NoEffects
    /\ themeAtMount' = Missing
    /\ themeSet' = FALSE
    /\ UNCHANGED <<apartFromTheme, themeStorage>>

NextTheme ==
    \/ InlineThemeScript
    \/ MountThemeProvider
    \/ RunThemeEffect
    \/ \E t \in Themes : setTheme(t)
    \/ ReloadTheme

InitTheme ==
    /\ InitHome
    /\ IdleApartFromTheme
    /\ themeStorage \in StoredThemes
    /\ theme = "light"
    /\ classList = {"light"}
    /\ themeStage = "html"
    /\ themeEffects = NoEffects
    /\ themeAtMount = Missing
    /\ themeSet = FALSE
    /\ reloads = 0

SpecTheme == InitTheme /\ [][NextTheme]_vars

\* ------------------------------------------------------------------------
\* The language of the two layouts: LanguageProvider (an effect loads the
\* saved language, a second one on [language] saves it) with its switchers,
\* and TranslationProvider (one effect loads) with the LanguageSwitcher that
\* saves what it sets.
\* ------------------------------------------------------------------------
Languages == {"en", "fr"}
\* What localStorage can hold under 'language' when the document loads
StoredLanguages == {Missing, "en", "fr", "de"}

SaveLanguageEffect(l) == [effect |-> "save", language |-> l]
LoadLanguageEffect == [effect |-> "load", language |-> Missing]

\* The effects of the first render, in the order they are declared
MountEffects_SaveFirst(provider, l) ==
    IF provider = "LanguageProvider"
    THEN <<SaveLanguageEffect(l), LoadLanguageEffect>>
    ELSE <<LoadLanguageEffect>>
MountEffects(provider, l) ==
    IF provider = "LanguageProvider"
    THEN <<LoadLanguageEffect, SaveLanguageEffect(l)>>
    ELSE <<LoadLanguageEffect>>

\* First render of the provider, useState('en')
MountLanguageProvider ==
    /\ languageStage = "html"
    /\ languageStage' = "mounted"
    /\ languageEffects' = MountEffects(languageProvider, language)
    /\ languageAtMount' = languageStorage
    /\ UNCHANGED <<apartFromLanguage, languageProvider, browserLang, languageStorage,
                   language, languageSwitched>>

\* The language the load effect passes to setLanguage, Missing if it calls
\* nothing
LoadedLanguage(provider, saved, browser) ==
    IF saved # Missing /\ saved \in {"en", "fr"} THEN saved
    ELSE IF provider = "TranslationProvider" /\ browser = "fr" THEN "fr"
    ELSE Missing

\* setLanguage(l) of LanguageProvider: a render with another language
\* schedules the effect on [language]
ScheduleLanguageSave(effects, l) ==
    IF l # language THEN Append(effects, SaveLanguageEffect(l)) ELSE effects

\* The effect at the head of the queue runs
RunLanguageEffect ==
    /\ languageStage = "mounted"
    /\ languageEffects # NoEffects
    /\ IF Head(languageEffects).effect = "save"
       THEN \* localStorage.setItem('language', language)
            /\ languageStorage' = Head(languageEffects).language
            /\ languageEffects' = Tail(languageEffects)
            /\ UNCHANGED language
       ELSE \E l \in {LoadedLanguage(languageProvider, languageStorage, browserLang)} :
                /\ language' = IF l = Missing THEN language ELSE l
                /\ languageEffects' =
                       IF l = Missing \/ languageProvider # "LanguageProvider"
                       THEN Tail(languageEffects)
                       ELSE ScheduleLanguageSave(Tail(languageEffects), l)
                /\ UNCHANGED languageStorage
    /\ UNCHANGED <<apartFromLanguage, languageProvider, browserLang, languageStage,
                   languageAtMount, languageSwitched>>

\* The switchers of LanguageProvider: the toggle and the select
setLanguage(l) ==
    /\ languageProvider = "LanguageProvider"
    /\ languageStage = "mounted"
    /\ languageEffects = NoEffects
    /\ l # language
    /\ language' = l
    /\ languageEffects' = ScheduleLanguageSave(languageEffects, l)
    /\ languageSwitched' = TRUE
    /\ UNCHANGED <<apartFromLanguage, languageProvider, browserLang, languageStorage,
                   languageStage, languageAtMount>>

\* LanguageSwitcher of TranslationProvider
toggleLanguage ==
    /\ languageProvider = "TranslationProvider"
    /\ languageStage = "mounted"
    /\ languageEffects = NoEffects
    /\ \E newLanguage \in {IF language = "en" THEN "fr" ELSE "en"} :
           /\ language' = newLanguage
           /\ languageStorage' = newLanguage
    /\ languageSwitched' = TRUE
    /\ UNCHANGED <<apartFromLanguage, languageProvider, browserLang, languageStage,
                   languageEffects, languageAtMount>>

\* The page is reloaded: localStorage is all that is kept
ReloadLanguage ==
    /\ languageStage = "mounted"
    /\ languageStage' = "html"
    /\ language' = "en"
    /\ languageEffects' = NoEffects
    /\ languageAtMount' = Missing
    /\ languageSwitched' = FALSE
    /\ UNCHANGED <<apartFromLanguage, languageProvider, browserLang, languageStorage>>

NextLanguage ==
    \/ MountLanguageProvider
    \/ RunLanguageEffect
    \/ \E l \in Languages : setLanguage(l)
    \/ toggleLanguage
    \/ ReloadLanguage

InitLanguage ==
    /\ InitHome
    /\ IdleApartFromLanguage
    /\ languageProvider \in {"LanguageProvider", "TranslationProvider"}
    /\ browserLang \in {"en", "fr", "de"}
    /\ languageStorage \in StoredLanguages
    /\ language = "en"
    /\ languageStage = "html"
    /\ languageEffects = NoEffects
    /\ languageAtMount = Missing
    /\ languageSwitched = FALSE

SpecLanguage == InitLanguage /\ [][NextLanguage]_vars

\* ------------------------------------------------------------------------
\* MapChart: the tooltip of the geography under the pointer
\* ------------------------------------------------------------------------
\* geo.properties.name of the geographies of the map
GeoName(countryId) ==
    CASE countryId = "USA" -> "United States of America"
      [] countryId = "FRA" -> "France"
      [] OTHER -> "Germany"

\* `${countryName}: ${count} ${t(...)}` or `${countryName}: ${t("no_data")}`
tooltipText(countryId) ==
    IF HasCountry(countryStats, countryId)
    THEN Only({ [name |-> GeoName(countryId), count |-> count,
                 text |-> IF count = 1 THEN "incident" ELSE "incidents"]
                : count \in {CountryAt(countryStats, countryId).count} })
    ELSE [name |-> GeoName(countryId), count |-> 0, text |-> "No data"]

\* A hover handler that does not test `disabled`
handleMouseHover_IgnoresDisabled(countryId) ==
    /\ Rendered
    /\ tooltipContent' = tooltipText(countryId)
    /\ tooltipVisible' = TRUE
    /\ ignoredEvents' = (ignoredEvents \/ ~mapActive)
    /\ UNCHANGED <<apartFromTooltip>>

\* onMouseEnter of a geography
handleMouseHover(countryId) ==
    /\ Rendered
    /\ IF ~mapActive                                   \* if (disabled) return
       THEN UNCHANGED <<tooltipVisible, tooltipContent>>
       ELSE /\ tooltipContent' = tooltipText(countryId)
            /\ tooltipVisible' = TRUE
    /\ ignoredEvents' = (ignoredEvents \/ ~mapActive)
    /\ UNCHANGED <<apartFromTooltip>>

\* onMouseLeave of a geography and of the map, onMoveStart of the group
HideTooltip ==
    /\ Rendered
    /\ tooltipVisible
    /\ tooltipVisible' = FALSE
    /\ UNCHANGED <<apartFromTooltip, tooltipContent, ignoredEvents>>

\* A click on a geography, recorded when the map is disabled
GeographyClick(countryId) ==
    /\ MapClick(countryId)
    /\ ignoredEvents' = (ignoredEvents \/ ~mapActive)
    /\ UNCHANGED <<scroll, showAllCities, peersOfTooltip, tooltipVisible, tooltipContent>>

NextHover ==
    \/ FetchData
    \/ ActivateMap
    \/ \E countryId \in GeoIds : GeographyClick(countryId)
    \/ MapReset /\ UNCHANGED outside
    \/ \E pos \in Positions : MapMoveEnd(pos)
    \/ DetailClose /\ UNCHANGED outside
    \/ \E countryId \in GeoIds : handleMouseHover(countryId)
    \/ HideTooltip

InitHover ==
    /\ response = "entities"
    /\ payload \in FetchedLists
    /\ InitPage
    /\ InitElsewhere

SpecHover == InitHover /\ [][NextHover]_vars

\* ------------------------------------------------------------------------
\* Home: the scroll listener, an effect on [lastScrollY].  Its cleanup, run
\* before the effect runs again, removes the listener and clears the timeout
\* of scrollTimeout.current.
\* ------------------------------------------------------------------------
\* Vertical positions of the window; the header hides beyond HeaderThreshold
ScrollYs == {0, 50, 150, 250}
HeaderThreshold == 100

\* A scroll event, at another vertical position or (horizontal scroll) at
\* the same one
handleScroll(currentScrollY) ==
    /\ scrollY' = currentScrollY
    /\ isScrolling' = TRUE
    /\ scrollTimeoutPending' = TRUE              \* clearTimeout, then setTimeout
    /\ headerVisible' = ~(currentScrollY > listenerScrollY
                          /\ currentScrollY > HeaderThreshold)
    /\ lastScrollY' = currentScrollY
    /\ UNCHANGED <<page, chartAnimationKey, scroll, showAllCities, peersOfScrolling,
                   listenerScrollY>>

\* The render after setLastScrollY changed lastScrollY: the cleanup of the
\* effect, then the effect with the new closure
RerunScrollEffect ==
    /\ listenerScrollY # lastScrollY
    /\ scrollTimeoutPending' = FALSE             \* clearTimeout(scrollTimeout.current)
    /\ listenerScrollY' = lastScrollY
    /\ UNCHANGED <<page, chartAnimationKey, scroll, showAllCities, peersOfScrolling,
                   scrollY, lastScrollY, isScrolling, headerVisible>>

\* 150 ms have passed since the timeout was set
ScrollTimeout ==
    /\ scrollTimeoutPending
    /\ chartAnimationKey < MaxAnimKey
    /\ scrollTimeoutPending' = FALSE
    /\ isScrolling' = FALSE
    /\ chartAnimationKey' = chartAnimationKey + 1
    /\ UNCHANGED <<page, scroll, showAllCities, peersOfScrolling, scrollY, lastScrollY,
                   listenerScrollY, headerVisible>>

NextScrolling ==
    \/ \E currentScrollY \in ScrollYs : handleScroll(currentScrollY)
    \/ RerunScrollEffect
    \/ ScrollTimeout

InitScrolling ==
    /\ InitHome
    /\ InitElsewhere

SpecScrolling == InitScrolling /\ [][NextScrolling]_vars

\* ------------------------------------------------------------------------
\* The MapChart that zooms to the selected country: an effect on
\* [selectedCountry, countryFeatures] sets a timeout of 100 ms that moves
\* the map to the country.  The effect has no cleanup: no timeout is cleared.
\* ------------------------------------------------------------------------
\* countryFeatures[id]: the centre and the extent of the bounds of a geography
CountryFeature(countryId) ==
    CASE countryId = "USA" -> [center |-> <<-112, 45>>, width |-> 120, height |-> 50]
      [] countryId = "FRA" -> [center |-> <<2, 46>>, width |-> 14, height |-> 10]
      [] OTHER -> [center |-> <<10, 51>>, width |-> 9, height |-> 8]

\* zoomLevel: larger countries need less zoom
zoomLevel(width, height) ==
    IF width > 90 \/ height > 90 THEN 2
    ELSE IF width > 50 \/ height > 50 THEN 3
    ELSE 4

\* The effect on [selectedCountry, countryFeatures]
ZoomEffect ==
    zoomTimeouts' =
        IF selectedCountry' # selectedCountry /\ selectedCountry' # Null
        THEN Append(zoomTimeouts, selectedCountry')
        ELSE zoomTimeouts

\* What the handlers of this map leave alone
ZoomMapFrame ==
    UNCHANGED <<input, aggregates, loading, error, mapActive, loadedView, position,
                scroll, showAllCities, peersOfZoomMap>>

ZoomMapClick(countryId) ==
    /\ Rendered
    /\ chartAnimationKey < MaxAnimKey
    /\ HasCountry(countryStats, countryId)
    /\ IF selectedCountry = countryId
       THEN /\ handleCountrySelect(Null)
            /\ zoomPosition' = HomePosition
            /\ clearedByMap' = TRUE
       ELSE /\ handleCountrySelect(countryId)
            /\ clearedByMap' = FALSE
            /\ UNCHANGED zoomPosition
    /\ ZoomEffect
    /\ RecordSelection
    /\ ZoomMapFrame

\* The reset button, rendered while position.zoom > 1
ZoomMapReset ==
    /\ Rendered
    /\ zoomPosition.zoom > 1
    /\ chartAnimationKey < MaxAnimKey
    /\ zoomPosition' = HomePosition
    /\ handleCountrySelect(Null)
    /\ clearedByMap' = TRUE
    /\ ZoomEffect
    /\ RecordSelection
    /\ ZoomMapFrame

\* The timeout set first runs: setPosition({ coordinates: country.center, zoom })
ZoomTimeout ==
    /\ zoomTimeouts # <<>>
    /\ \E country \in {CountryFeature(Head(zoomTimeouts))} :
           zoomPosition' = [coordinates |-> country.center,
                            zoom |-> zoomLevel(country.width, country.height)]
    /\ zoomTimeouts' = Tail(zoomTimeouts)
    /\ UNCHANGED <<apartFromZoomMap, clearedByMap>>

\* onMoveEnd={setPosition}: the user pans or zooms
ZoomMapMoveEnd(pos) ==
    /\ Rendered
    /\ pos # zoomPosition
    /\ zoomPosition' = pos
    /\ clearedByMap' = FALSE
    /\ UNCHANGED <<apartFromZoomMap, zoomTimeouts>>

NextZoomMap ==
    \/ FetchData
    \/ \E countryId \in GeoIds : ZoomMapClick(countryId)
    \/ ZoomMapReset
    \/ ZoomTimeout
    \/ \E pos \in Positions : ZoomMapMoveEnd(pos)

InitZoomMap ==
    /\ response = "entities"
    /\ payload \in FetchedLists
    /\ InitPage
    /\ InitElsewhere

SpecZoomMap == InitZoomMap /\ [][NextZoomMap]_vars

\* ------------------------------------------------------------------------
\* MapChart: fetchMapData, run once by the effect on mount.  Each action is
\* the code up to the next await.
\* ------------------------------------------------------------------------
\* fetch() rejects, resolves with ok false, resolves with ok true
GeoAnswers == {"rejects", "not_ok", "ok"}
\* A topology, a body that is no JSON, the JSON value null
GeoBodies == {"topology", "invalid", "null"}

\* The value response.json() resolves with
ParsedBody(body) == IF body = "topology" THEN "world" ELSE Null

\* error.message of what the outer catch receives
GeoErrorMessage(cause) ==
    CASE cause = "rejects" -> "Failed to load map data: Failed to fetch"
      [] cause = "not_ok" -> "Failed to load map data: Remote fetch failed: 404"
      [] OTHER -> "Failed to load map data: Unexpected token < in JSON at position 0"

\* response = await fetch(localGeoUrl)
FetchLocalGeo ==
    /\ geoStage = "mounted"
    /\ geoStage' = "local"
    /\ localFetches' = localFetches + 1
    /\ UNCHANGED <<apartFromGeometry, localAnswer, remoteAnswer, localBody, remoteBody,
                   geoResponse, mapData, mapError, remoteFetches>>

\* A local fetch whose failure goes to the outer catch
LocalGeoAnswers_NoFallback ==
    /\ geoStage = "local"
    /\ IF localAnswer = "ok"
       THEN /\ geoResponse' = "local"
            /\ geoStage' = "body"
            /\ UNCHANGED mapError
       ELSE /\ mapError' = GeoErrorMessage(localAnswer)
            /\ geoStage' = "done"
            /\ UNCHANGED geoResponse
    /\ UNCHANGED <<apartFromGeometry, localAnswer, remoteAnswer, localBody, remoteBody,
                   mapData, localFetches, remoteFetches>>

\* The local fetch settles: on a rejection or a response that is not ok the
\* inner catch fetches the remote URL
LocalGeoAnswers ==
    /\ geoStage = "local"
    /\ IF localAnswer = "ok"
       THEN /\ geoResponse' = "local"
            /\ geoStage' = "body"
            /\ UNCHANGED remoteFetches
       ELSE /\ remoteFetches' = remoteFetches + 1
            /\ geoStage' = "remote"
            /\ UNCHANGED geoResponse
    /\ UNCHANGED <<apartFromGeometry, localAnswer, remoteAnswer, localBody, remoteBody,
                   mapData, mapError, localFetches>>

\* The remote fetch settles: a rejection or a response that is not ok goes to
\* the outer catch
RemoteGeoAnswers ==
    /\ geoStage = "remote"
    /\ IF remoteAnswer = "ok"
       THEN /\ geoResponse' = "remote"
            /\ geoStage' = "body"
            /\ UNCHANGED mapError
       ELSE /\ mapError' = GeoErrorMessage(remoteAnswer)
            /\ geoStage' = "done"
            /\ UNCHANGED geoResponse
    /\ UNCHANGED <<apartFromGeometry, localAnswer, remoteAnswer, localBody, remoteBody,
                   mapData, localFetches, remoteFetches>>

\* data = await response.json(); setMapData(data)
ParseGeoBody ==
    /\ geoStage = "body"
    /\ geoStage' = "done"
    /\ \E body \in {IF geoResponse = "local" THEN localBody ELSE remoteBody} :
           IF body = "invalid"
           THEN /\ mapError' = GeoErrorMessage("invalid")
                /\ UNCHANGED mapData
           ELSE /\ mapData' = ParsedBody(body)
                /\ UNCHANGED mapError
    /\ UNCHANGED <<apartFromGeometry, localAnswer, remoteAnswer, localBody, remoteBody,
                   geoResponse, localFetches, remoteFetches>>

NextGeometry ==
    \/ FetchLocalGeo
    \/ LocalGeoAnswers
    \/ RemoteGeoAnswers
    \/ ParseGeoBody

InitGeometry ==
    /\ InitHome
    /\ IdleApartFromGeometry
    /\ localAnswer \in GeoAnswers
    /\ remoteAnswer \in GeoAnswers
    /\ localBody \in GeoBodies
    /\ remoteBody \in GeoBodies
    /\ geoStage = "mounted"
    /\ geoResponse = Null
    /\ mapData = Null
    /\ mapError = Null
    /\ localFetches = 0
    /\ remoteFetches = 0

SpecGeometry == InitGeometry /\ [][NextGeometry]_vars

\* ------------------------------------------------------------------------
\* A rounding that drops the fraction
MathRound_Truncates(num, den) == num \div den

\* Math.round(num / den) for num >= 0 and den > 0: the nearest integer, a
\* half going up
MathRound(num, den) == (2 * num + den) \div (2 * den)

\* data.reduce((sum, entry) => sum + entry[category], 0)
PieTotal(chartData) == SumOfValues(chartData)

\* data.map(entry => ({...entry, percentage: Math.round((entry[category] / total) * 100)}))
dataWithPercentage(chartData) ==
    Only({ [i \in 1..Len(chartData) |->
              [name |-> chartData[i].name, value |-> chartData[i].value,
               percentage |-> MathRound(chartData[i].value * 100, total)]]
           : total \in {PieTotal(chartData)} })

\* The pie charts of the page: <EnhancedPieChart data={groupStats}> and
\* <EnhancedPieChart data={statusData}>
groupChart == dataWithPercentage(groupStats)
statusChart == dataWithPercentage(statusStats)

\* ========================================================================
\* Properties
\* ========================================================================
\* What processOrgStats returns for an entity list, as the three stats
OrgStatsOf(entities) ==
    Only({ <<org.employeeStats, org.revenueStats, org.statusStats>>
           : org \in {processOrgStats(entities)} })

\* Ransomware-group aggregation of an entity list, as processData formats it
GroupStatsOf(entities) ==
    LET groups[k \in 0..Len(entities)] ==
            IF k = 0 THEN <<>>
            ELSE Only({ Increment(prev, OrElse(entities[k].ransomware_group, TUnknown))
                        : prev \in {groups[k - 1]} })
    IN  Slice(Sort(groups[Len(entities)], "ByValueDesc"), TopGroups)

\* Industry aggregation of a country's entities, as the bar chart gets it
CountryIndustryStatsOf(entities) ==
    Slice(Sort(IndustriesOf(entities), "ByValueDesc"), TopCountryIndustries)

IsObject(e) == e.kind = "object"
NotNull(e) == e.kind # "null"

\* Selected(code): a country of countryStats is selected
InSelected == selectedCountry # Null /\ HasCountry(countryStats, selectedCountry)

\* ------------------------------------------------------------------------
\* C1: whenever selectedCountry is null, the displayed employeeStats,
\* revenueStats and statusStats are processOrgStats of the full entity list.
\* Fails: a map click on the selected country (and the reset button) calls
\* handleCountrySelect(null), which takes the `else` branch and only clears
\* selectedCountry.
\* ------------------------------------------------------------------------
C1_UnselectedShowsGlobalOrgStats ==
    (Rendered /\ selectedCountry = Null)
        => <<employeeStats, revenueStats, statusStats>> = OrgStatsOf(data)

\* ------------------------------------------------------------------------
\* C2: re-selecting the selected country on the map leaves selectedCountry
\* null and every displayed aggregate as it was displayed after the load.
\* ------------------------------------------------------------------------
C2_ReselectRestoresLoadedView ==
    [][\A c \in GeoIds :
          (mapActive /\ selectedCountry = c /\ HasCountry(countryStats, c)
             /\ MapClick(c))
          => (selectedCountry' = Null /\ View' = loadedView)]_vars

\* ------------------------------------------------------------------------
\* C3: after a load the employeeStats values and the revenueStats values each
\* sum to the number of entities, an entity without employees_range or
\* revenue_range being counted as "Unknown".
\* ------------------------------------------------------------------------
C3_EveryEntityCountedOnce ==
    Rendered =>
        /\ SumOfValues(employeeStats) = Len(data)
        /\ SumOfValues(revenueStats) = Len(data)
        /\ (\E i \in 1..Len(data) : data[i].employees_range = Missing)
              => HasName(employeeStats, "Unknown")
        /\ (\E i \in 1..Len(data) : data[i].revenue_range = Missing)
              => HasName(revenueStats, "Unknown")

\* ------------------------------------------------------------------------
\* C4: null and non-object entries are skipped silently: the load ends with
\* error null and with the aggregates of the list without those entries.
\* ------------------------------------------------------------------------
C4_MalformedEntriesSkipped ==
    ~loading =>
        /\ error = Null
        /\ \E r \in {processData(SelectSeq(payload, IsObject))} :
              <<countryStats, industryStats, groupStats, globalCities,
                employeeStats, revenueStats, statusStats>>
              = <<r.countryStats, r.industryStats, r.groupStats, r.globalCities,
                  r.employeeStats, r.revenueStats, r.statusStats>>

\* ------------------------------------------------------------------------
\* C5: after a load the counts of countryStats sum to the number of
\* well-formed (non-null) entities of the list.  Stated for the lists whose
\* entries are objects or null, where well-formed and non-null are the same.
\* ------------------------------------------------------------------------
ObjectsAndNulls(entities) ==
    \A i \in 1..Len(entities) : entities[i].kind \in {"object", "null"}

C5_CountrySumIsNonNullCount ==
    (~loading /\ ObjectsAndNulls(payload))
        => SumOfCounts(countryStats) = Len(SelectSeq(payload, NotNull))

\* ------------------------------------------------------------------------
\* C6: selecting a code that is no key of countryStats changes neither
\* selectedCountry nor selectedCountryData nor any displayed aggregate, by a
\* map click as well as by a direct call of handleCountrySelect.
\* ------------------------------------------------------------------------
C6_AbsentCodeIsNoOp ==
    [][\A code \in CallbackCodes :
          (~HasCountry(countryStats, code)
             /\ (MapClick(code) \/ SelectCallback(code)))
          => /\ selectedCountry' = selectedCountry
             /\ selectedCountryData' = selectedCountryData
             /\ View' = View]_vars

\* ------------------------------------------------------------------------
\* C7: the industryStats values sum to at most the number of entities, and to
\* exactly that number whenever every entity has a non-null industry.
\* Fails with more than TopIndustries distinct industries.
\* ------------------------------------------------------------------------
AllHaveIndustry(entities) ==
    \A i \in 1..Len(entities) :
        IsObject(entities[i]) /\ entities[i].industry # Missing

DistinctIndustries(entities) ==
    {entities[i].industry : i \in 1..Len(entities)}

RangeStatsOk(stats, order) ==
    /\ \A i \in 1..Len(stats) :
          /\ stats[i].name = "Unknown" \/ IndexOf(order, stats[i].name) >= 0
          /\ stats[i].value > 0
          /\ stats[i].name = "Unknown" => i = Len(stats)
    /\ \A i, j \in 1..Len(stats) :
          /\ (i # j) => stats[i].name # stats[j].name
          /\ (i < j /\ stats[j].name # "Unknown")
                => IndexOf(order, stats[i].name) < IndexOf(order, stats[j].name)

C8_RangeStatsCanonical ==
    /\ RangeStatsOk(employeeStats, employeeRangeOrder)
    /\ RangeStatsOk(revenueStats, revenueRangeOrder)

\* "Unknown" is last in employeeStats although it is the largest bucket, and
\* revenueStats lists two table names that the entity list has in the
\* opposite order
C8_Witness ==
    /\ Rendered
    /\ Len(employeeStats) = 2
    /\ employeeStats[2].name = "Unknown"
    /\ employeeStats[2].value > employeeStats[1].value
    /\ Len(revenueStats) = 2
    /\ \E i, j \in 1..Len(data) :
          /\ i < j
          /\ data[i].revenue_range = revenueStats[2].name
          /\ data[j].revenue_range = revenueStats[1].name

\* ------------------------------------------------------------------------
\* C9: on every transition into Selected(code) the groupStats given to the
\* group pie chart and to the group count panel become the group aggregation
\* of countryStats[code].entities.
\* ------------------------------------------------------------------------
C9_SelectionScopesGroups ==
    [][(selectedCountry' # selectedCountry /\ InSelected')
          => DisplayedGroups'
               = GroupStatsOf(CountryAt(countryStats, selectedCountry').entities)]_vars

\* ------------------------------------------------------------------------
\* C10: from Selected(A), a map click on another country B of countryStats
\* gives Selected(B) in that one step, with the employee, revenue, status and
\* country-industry view models those of countryStats[B].entities.
\* ------------------------------------------------------------------------
C10_DirectSwitch ==
    [][\A b \in GeoIds :
          (mapActive /\ InSelected /\ b # selectedCountry
             /\ HasCountry(countryStats, b) /\ MapClick(b))
          => \E countryEntities \in {CountryAt(countryStats, b).entities} :
               /\ selectedCountry' = b
               /\ selectedCountryData' = countryEntities
               /\ <<employeeStats', revenueStats', statusStats'>>
                    = OrgStatsOf(countryEntities)
               /\ DisplayedIndustries' = CountryIndustryStatsOf(countryEntities)]_vars

\* B is selected straight after A, and what is displayed differs from what
\* was displayed for A
C10_Witness ==
    /\ InSelected
    /\ prevSelected # Null
    /\ HasCountry(countryStats, prevSelected)
    /\ <<employeeStats, revenueStats, statusStats>>
         # OrgStatsOf(CountryAt(countryStats, prevSelected).entities)
    /\ DisplayedIndustries
         # CountryIndustryStatsOf(CountryAt(countryStats, prevSelected).entities)

\* ------------------------------------------------------------------------
\* C11: when the endpoint answers OK with JSON that has no entities array (a
\* bare array of entities, an object without the `entities` key), the page
\* ends with a non-null error.
\* Fails: `jsonData.entities || []` turns both into an empty entity list.
\* ------------------------------------------------------------------------
C11_NoEntitiesArrayIsError ==
    (~loading /\ response \in {"bare_array", "no_entities_key"}) => error # Null

\* ------------------------------------------------------------------------
\* C12: when the request rejects or returns a non-OK status, at most one
\* request is ever issued, and once it has failed error is the raw message,
\* loading is false and every aggregate is empty, whatever the user does.
\* ------------------------------------------------------------------------
FailedFetch == {"network_error", "http_404", "http_500"}

C12_FailedFetchIsTerminal ==
    response \in FailedFetch =>
        /\ requests <= 1
        /\ requests = 1 =>
              /\ error # Null
              /\ error = FetchError(response)
              /\ ~loading
              /\ aggregates = <<<<>>, <<>>, <<>>, <<>>, <<>>>>
              /\ orgStats = <<<<>>, <<>>, <<>>>>

C12_Witness ==
    /\ response = "http_500"
    /\ requests = 1
    /\ ~loading
    /\ error = "HTTP error! status: 500"

\* ------------------------------------------------------------------------
\* C13: given an empty entity list, countryStats, industryStats, groupStats,
\* globalCities, employeeStats, revenueStats and statusStats are all empty
\* and error stays null.
\* ------------------------------------------------------------------------
C13_EmptyListIsNoError ==
    (~loading /\ payload = <<>>) =>
        /\ error = Null
        /\ <<countryStats, industryStats, groupStats, globalCities>>
             = <<<<>>, <<>>, <<>>, <<>>>>
        /\ orgStats = <<<<>>, <<>>, <<>>>>

\* The empty dashboard is displayed and the user has used its map
C13_Witness ==
    /\ Rendered
    /\ payload = <<>>
    /\ data = <<>>
    /\ mapActive
    /\ position # HomePosition

\* ------------------------------------------------------------------------
\* C14: industryStats and groupStats each hold the min(n, 10) buckets of
\* highest count in non-increasing count order, no omitted bucket has a count
\* greater than an included one, and buckets of equal count appear in the
\* order in which their names were first seen in the entity list.
\* ------------------------------------------------------------------------
\* The industry and the group each entity of the list is counted under
IndustryKeys == [i \in 1..Len(data) |-> OrElse(data[i].industry, TUnknown)]
GroupKeys == [i \in 1..Len(data) |-> OrElse(data[i].ransomware_group, TUnknown)]

CountIn(keys, name) == Cardinality({i \in 1..Len(keys) : keys[i] = name})
FirstSeen(keys, name) ==
    CHOOSE i \in 1..Len(keys) :
        keys[i] = name /\ \A j \in 1..(i - 1) : keys[j] # name
NamesIn(keys) == {keys[i] : i \in 1..Len(keys)}

TopBucketsOk(stats, keys, limit) ==
    /\ Len(stats) = IF Cardinality(NamesIn(keys)) < limit
                    THEN Cardinality(NamesIn(keys)) ELSE limit
    /\ \A i \in 1..Len(stats) :
          /\ stats[i].name \in NamesIn(keys)
          /\ stats[i].value = CountIn(keys, stats[i].name)
    /\ \A i, j \in 1..Len(stats) :
          i < j =>
            /\ stats[i].name # stats[j].name
            /\ stats[i].value >= stats[j].value
            /\ stats[i].value = stats[j].value
                  => FirstSeen(keys, stats[i].name) < FirstSeen(keys, stats[j].name)
    /\ \A name \in NamesIn(keys) :
          (\A i \in 1..Len(stats) : stats[i].name # name)
              => \A i \in 1..Len(stats) : CountIn(keys, name) <= stats[i].value

CityKeys == [i \in 1..Len(data) |-> OrElse(data[i].city, TUnknown)]
CodeKeys == [i \in 1..Len(data) |-> CountryCodeOf(data[i])]

\* geography.country of an entity, or what stands for it
CountryNameOf(item) ==
    OrElse(item.country,
           IF CountryCodeOf(item) = "UNK" THEN TGlobal ELSE CountryCodeOf(item))

CityEntriesOk(cities) ==
    /\ Len(cities) = IF Cardinality(NamesIn(CityKeys)) < TopCities
                     THEN Cardinality(NamesIn(CityKeys)) ELSE TopCities
    /\ \A i \in 1..Len(cities) :
          /\ cities[i].city \in NamesIn(CityKeys)
          /\ cities[i].count = CountIn(CityKeys, cities[i].city)
          /\ cities[i].countryCode
               = CountryCodeOf(data[FirstSeen(CityKeys, cities[i].city)])
    /\ \A i, j \in 1..Len(cities) :
          i < j => /\ cities[i].city # cities[j].city
                   /\ cities[i].count >= cities[j].count
    /\ \A name \in NamesIn(CityKeys) :
          (\A i \in 1..Len(cities) : cities[i].city # name)
              => \A i \in 1..Len(cities) : CountIn(CityKeys, name) <= cities[i].count

C15_CityOfFirstEntity ==
    Rendered =>
        /\ CityEntriesOk(globalCities)
        /\ \A i \in 1..Len(globalCities) :
              globalCities[i].countryName
                = CountryNameOf(data[FirstSeen(CityKeys, globalCities[i].city)])

\* C15 as amended: ... its countryCode is that of the first entity seen with
\* that city name and its countryName is that of the first entity seen with
\* that country code ...
C15_CityOfFirstCountryName ==
    Rendered =>
        /\ CityEntriesOk(globalCities)
        /\ \A i \in 1..Len(globalCities) :
              globalCities[i].countryName
                = CountryNameOf(data[FirstSeen(CodeKeys, globalCities[i].countryCode)])

\* More than twenty cities, the first of the list shared by two countries,
\* and a city whose first entity names its country otherwise than the
\* country's first entity
C15_Witness ==
    /\ Rendered
    /\ Cardinality(NamesIn(CityKeys)) > TopCities
    /\ Len(globalCities) = TopCities
    /\ \E i \in 1..Len(data) :
          /\ CityKeys[i] = globalCities[1].city
          /\ CodeKeys[i] # globalCities[1].countryCode
    /\ \E i \in 1..Len(globalCities) :
          globalCities[i].countryName
            # CountryNameOf(data[FirstSeen(CityKeys, globalCities[i].city)])

\* ------------------------------------------------------------------------
\* C16: statusStats lists every distinct organization status in scope (a
\* missing status as "Unknown") exactly once, in non-increasing count order
\* with no truncation, and its values sum to the number of entities in scope.
\* The scope is the entity list the page holds for the selection
\* (selectedCountryData), the whole list when it holds none.
\* ------------------------------------------------------------------------
ScopeEntities == IF selectedCountryData # <<>> THEN selectedCountryData ELSE data

StatusKeys(entities) ==
    [i \in 1..Len(entities) |-> OrElse(entities[i].status, "Unknown")]

StatusStatsOk(stats, keys) ==
    /\ {stats[i].name : i \in 1..Len(stats)} = NamesIn(keys)
    /\ Len(stats) = Cardinality(NamesIn(keys))
    /\ \A i \in 1..Len(stats) : stats[i].value = CountIn(keys, stats[i].name)
    /\ \A i, j \in 1..Len(stats) : i < j => stats[i].value >= stats[j].value
    /\ SumOfValues(stats) = Len(keys)

C17_NewSelectionInvalidates ==
    [][\A i \in 1..Len(animations) :
          animateScroll(i) => animations[i].gen = started]_vars

\* ------------------------------------------------------------------------
\* C18: every select, re-select, switch and clear action (map click, reset
\* button, close of the detail card) leaves data, countryStats with each
\* country's count, cities and entities, industryStats, groupStats and
\* globalCities unchanged.
\* ------------------------------------------------------------------------
C18_SelectionLeavesAggregates ==
    [][((\E countryId \in GeoIds : MapClick(countryId)) \/ MapReset \/ DetailClose)
          => UNCHANGED aggregates]_vars

\* A country was selected, another one after it, and the selection cleared
C18_Witness ==
    /\ Rendered
    /\ Len(countryStats) = 2
    /\ selectedCountry = Null
    /\ prevSelected # Null
    /\ chartAnimationKey >= 3
    /\ selectedCountryData = <<>>

\* ------------------------------------------------------------------------
\* C19: displayed lists are the first min(n, N) entries of their sorted
\* source: N = 8 for the industries of a country, N = 10 for the group lists
\* (global and of a country), and for the city list card N = 10 while
\* collapsed and all n entries while expanded; the expand control is offered
\* only when n > 10, and a second toggle returns to the collapsed view.
\* Fails on the group list of a country: the detail card shows 5 groups.
\* ------------------------------------------------------------------------
FirstN(s0, n) == Only({ SubSeq(s, 1, IF Len(s) < n THEN Len(s) ELSE n) : s \in {s0} })

SortedIndustries(entities) == Sort(IndustriesOf(entities), "ByValueDesc")
SortedGroups(entities) == Sort(GroupsOf(entities), "ByValueDesc")

DisplayedListsOk(countryGroups) ==
    /\ Rendered => groupStats = FirstN(SortedGroups(data), 10)
    /\ DetailCardShown =>
          \E entities \in {CountryAt(countryStats, selectedCountry).entities} :
              /\ DisplayedIndustries = FirstN(SortedIndustries(entities), 8)
              /\ industryData(entities) = FirstN(SortedIndustries(entities), 8)
              /\ groupData(entities) = FirstN(SortedGroups(entities), countryGroups)
    /\ CityCardShown =>
          /\ cityEntries = IF showAllCities THEN globalCities
                           ELSE FirstN(globalCities, 10)
          /\ ExpandOffered <=> Len(globalCities) > 10
          /\ showAllCities => Len(globalCities) > 10

TogglesAlternate == [][toggleAllCities => showAllCities' = ~showAllCities]_vars

\* C19 as stated, with N = 10 for the group list of a country
C19_GroupsOfCountryTopTen == [](DisplayedListsOk(10)) /\ TogglesAlternate

\* C19 as amended: ... N = 10 for the global group list and N = 5 for the
\* group list of a country ...
C19_GroupsOfCountryTopFive == [](DisplayedListsOk(5)) /\ TogglesAlternate

\* The city list is expanded to more than 10 cities, after the card of a
\* country of more than 8 industries and more than 5 groups was closed
C19_Witness ==
    /\ CityCardShown
    /\ showAllCities
    /\ Len(cityEntries) > 10
    /\ prevSelected # Null
    /\ HasCountry(countryStats, prevSelected)
    /\ Len(IndustriesOf(CountryAt(countryStats, prevSelected).entities)) > 8
    /\ Len(GroupsOf(CountryAt(countryStats, prevSelected).entities)) > 5

\* ------------------------------------------------------------------------
\* C20: in a pie chart every entry's percentage is value / total * 100
\* rounded to the nearest integer (a half going up), total being the sum of
\* the values of all the entries given to that chart, the same for every
\* entry, and each percentage lies in 0..100.
\* ------------------------------------------------------------------------
PercentagesOk(chart, chartData) ==
    /\ Len(chart) = Len(chartData)
    /\ \A i \in 1..Len(chart) :
          \E total \in {SumSeq([k \in 1..Len(chartData) |-> chartData[k].value])} :
              /\ chart[i].value = chartData[i].value
              /\ chart[i].percentage \in 0..100
              /\ 200 * chart[i].value - total < 2 * chart[i].percentage * total
              /\ 2 * chart[i].percentage * total <= 200 * chart[i].value + total

C20_PercentageIsRounded ==
    Rendered =>
        /\ PercentagesOk(groupChart, groupStats)
        /\ PercentagesOk(statusChart, statusStats)

\* Eight groups of one entity each: every 12.5 is shown as 13
C20_Witness ==
    /\ Rendered
    /\ Len(groupChart) = 8
    /\ groupChart[1].value = 1
    /\ groupChart[1].percentage = 13
    /\ \A i \in 1..Len(groupChart) : groupChart[i].percentage = 13

\* ------------------------------------------------------------------------
\* C21: for any last_updated time and current time the label of the time
\* since the update is in minutes when the elapsed time is under 60
\* minutes, in hours when it is under 24 hours and in days otherwise, and
\* the unit is singular exactly when the displayed integer is 1.
\* ------------------------------------------------------------------------
CardRendered == timeSinceUpdate.unit # Null
IsTime(updated) == updated.given /\ updated.valid
Elapsed == now - last_updated.ms

C21_TimeSinceUpdateUnits ==
    (CardRendered /\ IsTime(last_updated)) =>
        /\ timeSinceUpdate.unit =
               IF Elapsed < 60 * MsPerMinute THEN "minute"
               ELSE IF Elapsed < 24 * 60 * MsPerMinute THEN "hour"
               ELSE "day"
        /\ timeSinceUpdate.suffix \in {"", "s"}
        /\ (timeSinceUpdate.suffix = "") <=> (timeSinceUpdate.count = 1)

\* One second short of two minutes: "1 minute ago"
C21_Witness ==
    /\ CardRendered
    /\ IsTime(last_updated)
    /\ Elapsed = 2 * MsPerMinute - 1
    /\ timeSinceUpdate = [count |-> 1, unit |-> "minute", suffix |-> ""]

\* ------------------------------------------------------------------------
\* C22: the theme persists across reloads: if localStorage holds theme
\* 'dark' when ThemeProvider mounts, then once the mount effects have run
\* the theme state is 'dark', the document root carries the class 'dark'
\* and not 'light', and localStorage still holds 'dark'.
\* ------------------------------------------------------------------------
ThemeMountDone == themeStage = "mounted" /\ themeEffects = NoEffects /\ ~themeSet

C22_DarkThemeSurvivesReload ==
    (ThemeMountDone /\ themeAtMount = "dark") =>
        /\ theme = "dark"
        /\ "dark" \in classList
        /\ "light" \notin classList
        /\ themeStorage = "dark"

\* ------------------------------------------------------------------------
\* C23: the language persists across reloads: if localStorage holds
\* language 'fr' when the language provider mounts, then once the mount
\* effects have run the language is 'fr' and localStorage still holds 'fr';
\* after language switches the stored value equals the current language;
\* the language is always 'en' or 'fr'.
\* ------------------------------------------------------------------------
LanguageSettled == languageStage = "mounted" /\ languageEffects = NoEffects

C23_LanguagePersists ==
    /\ language \in {"en", "fr"}
    /\ (LanguageSettled /\ ~languageSwitched /\ languageAtMount = "fr") =>
           (language = "fr" /\ languageStorage = "fr")
    /\ (LanguageSettled /\ languageSwitched) => languageStorage = language

\* Mounted with 'fr' saved, then switched to English
C23_Witness ==
    /\ LanguageSettled
    /\ languageAtMount = "fr"
    /\ languageSwitched
    /\ language = "en"
    /\ languageStorage = "en"

\* ------------------------------------------------------------------------
\* C24: after any sequence of map country clicks, reset-button clicks and
\* detail-card closes, selectedCountry is either null or a key of
\* countryStats with at least one entity, and when it is non-null
\* selectedCountryData equals countryStats[selectedCountry].entities.
\* ------------------------------------------------------------------------
C24_SelectionIsACountryWithEntities ==
    selectedCountry # Null =>
        /\ HasCountry(countryStats, selectedCountry)
        /\ Len(CountryAt(countryStats, selectedCountry).entities) >= 1
        /\ selectedCountryData = CountryAt(countryStats, selectedCountry).entities

\* USA selected straight after FRA, each with its own entities
C24_Witness ==
    /\ selectedCountry = "USA"
    /\ prevSelected = "FRA"
    /\ Len(selectedCountryData) = 2
    /\ Len(data) = 3
    /\ chartAnimationKey > 2

\* ------------------------------------------------------------------------
\* C25: the map must be activated before it can select: while mapActive is
\* false no country click or hover changes selectedCountry or the tooltip,
\* mapActive once true never returns to false, and selectedCountry is
\* non-null only when mapActive is true.
\* ------------------------------------------------------------------------
C25_ActivationBeforeSelection ==
    /\ [](selectedCountry # Null => mapActive)
    /\ [][~mapActive => /\ selectedCountry' = selectedCountry
                        /\ tooltipVisible' = tooltipVisible
                        /\ tooltipContent' = tooltipContent]_vars
    /\ [][mapActive => mapActive']_vars

\* Clicks or hovers were ignored, then the map was activated, a country
\* hovered and selected
C25_Witness ==
    /\ ignoredEvents
    /\ mapActive
    /\ selectedCountry = "FRA"
    /\ tooltipVisible
    /\ tooltipContent = [name |-> "France", count |-> 1, text |-> "incident"]

\* ------------------------------------------------------------------------
\* C26: processOrgStats does not depend on the order of the entities for
\* the size dimensions: for any entity list and any permutation of it,
\* employeeStats is the same for both and revenueStats is the same for both.
\* ------------------------------------------------------------------------
PermutationsOf(s) ==
    { [i \in 1..Len(s) |-> s[p[i]]] : p \in Permutations(1..Len(s)) }

C26_OrgStatsOrderIndependent ==
    Rendered =>
        \A permuted \in PermutationsOf(payload) :
            \E org \in {processOrgStats(permuted)} :
                /\ org.employeeStats = processOrgStats(payload).employeeStats
                /\ org.revenueStats = processOrgStats(payload).revenueStats

\* ------------------------------------------------------------------------
\* C27: for every country code in countryStats after a load, count equals
\* the length of its entities list and the sum of its per-city counts, and
\* every non-null entity of the input appears in the entities list of
\* exactly one country.
\* ------------------------------------------------------------------------
\* The non-null entities of the list whose country code is `code`, in order
EntitiesOfCode(entities, code) ==
    SelectSeq(entities, LAMBDA item : NotNull(item) /\ CountryCodeOf(item) = code)

CountryStatsPartition(entities) ==
    /\ \A i \in 1..Len(countryStats) :
          /\ countryStats[i].count = Len(countryStats[i].entities)
          /\ countryStats[i].count = SumOfValues(countryStats[i].cities)
          /\ countryStats[i].entities = EntitiesOfCode(entities, countryStats[i].code)
          /\ \A j \in 1..Len(countryStats) :
                 countryStats[j].code = countryStats[i].code => j = i
    /\ \A k \in 1..Len(entities) :
          NotNull(entities[k]) => HasCountry(countryStats, CountryCodeOf(entities[k]))

C27_CountryStatsPartitionInput ==
    (~loading /\ ObjectsAndNulls(payload)) => CountryStatsPartition(payload)

\* ------------------------------------------------------------------------
\* C28: scroll-stop detection: after the last scroll event of a burst, once
\* 150 ms pass with no further scroll event, isScrolling becomes false and
\* chartAnimationKey is incremented exactly once.  As long as isScrolling is
\* true, the timeout that will end it is pending.
\* ------------------------------------------------------------------------
C28_ScrollStopDetected ==
    (isScrolling /\ listenerScrollY = lastScrollY) => scrollTimeoutPending

\* ------------------------------------------------------------------------
\* C29: in the MapChart that zooms to the selected country after 100 ms,
\* once the selection has been cleared by a re-click on the selected country
\* or by the reset button, the map position is coordinates [0, 0] with zoom
\* 1, and no pending step started by the earlier selection changes it.
\* ------------------------------------------------------------------------
C29_ClearedSelectionStaysHome ==
    clearedByMap => (selectedCountry = Null /\ zoomPosition = HomePosition)

\* ------------------------------------------------------------------------
\* C30: map geometry loading falls back from the local file to the remote
\* URL: if the local fetch rejects or is not OK the remote URL is fetched
\* exactly once; the error state is set only when the remote fetch also
\* fails or the response body cannot be parsed; otherwise mapData is set
\* and error stays null; mapData and error are never both set.
\* ------------------------------------------------------------------------
LocalGeoFailed == localAnswer \in {"rejects", "not_ok"}
RemoteGeoFailed == remoteAnswer \in {"rejects", "not_ok"}
\* The body of the response the fallback rule designates
DesignatedBody == IF LocalGeoFailed THEN remoteBody ELSE localBody

C30_GeometryFallback ==
    /\ ~(mapData # Null /\ mapError # Null)
    /\ localFetches <= 1
    /\ remoteFetches <= 1
    /\ remoteFetches = 1 => LocalGeoFailed
    /\ geoStage = "done" =>
          /\ localFetches = 1
          /\ remoteFetches = IF LocalGeoFailed THEN 1 ELSE 0
          /\ (mapError # Null) <=>
                 \/ LocalGeoFailed /\ RemoteGeoFailed
                 \/ ~(LocalGeoFailed /\ RemoteGeoFailed) /\ DesignatedBody = "invalid"
          /\ mapError = Null => mapData = ParsedBody(DesignatedBody)

\* The local file is missing and the remote one is served
C30_Witness ==
    /\ geoStage = "done"
    /\ localAnswer = "not_ok"
    /\ remoteAnswer = "ok"
    /\ remoteFetches = 1
    /\ mapData = "world"
    /\ mapError = Null
====
